---------------------------- MODULE Spec2Model ----------------------------
(***************************************************************************)
(* Storage core of Xline: KvStoreBackend (xline/src/storage/kvstore.rs).   *)
(* The driver task takes execution requests and sync requests one at a     *)
(* time; speculative_exec answers a request and buffers it in sp_exec_pool,*)
(* sync_cmd drains the buffer of a proposal, applies it to the index and   *)
(* the db, advances the revision and notifies the KV watcher.              *)
(*                                                                         *)
(* Byte strings are sequences of naturals, Option<T> is a sequence of      *)
(* length 0 (None) or 1 (Some), a Revision is the pair <<main, sub>>.      *)
(***************************************************************************)
EXTENDS Integers, Sequences, FiniteSets, TLC

VARIABLES
    revision,      \* KvStoreBackend.revision (shared with HeaderGenerator)
    index,         \* KvStoreBackend.index : key -> history of KeyRevision
    db,            \* KvStoreBackend.db : Revision -> KeyValue
    sp_exec_pool,  \* KvStoreBackend.sp_exec_pool : ProposeId -> Vec<RequestWrapper>
    kv_update,     \* every (revision, events) tuple sent on kv_update_tx, in order
    last,          \* the request the driver handled last, and what it replied
    executed,      \* per proposal in the pool: the requests executed, and whether each was answered Ok
    alive,         \* FALSE once the driver task has panicked
    nexec,         \* number of execution requests handled so far
    ranged,        \* the Range requests answered since the last sync request, with their responses
    received,      \* number of tuples the KV watcher has taken from kv_update_rx
    sending,       \* Some(tuple) while sync_cmd awaits kv_update_tx.send of it
    exec_rx,       \* the execution requests sent on exec_tx and not yet received
    sync_rx,       \* the sync requests sent on sync_tx and not yet received
    syncing,       \* Some(locals of sync_cmd) from the take of the pool entry to the reply
    watched,       \* Some(locals of the KV watcher in its read of the history and of the revision)
    callers        \* the callers of send_req and send_sync that panicked on a closed channel

vars == <<revision, index, db, sp_exec_pool, kv_update, last, executed, alive,
          nexec, ranged, received, sending, exec_rx, sync_rx, syncing, watched,
          callers>>

---------------------------------------------------------------------------
(* Bounds of the model                                                     *)

\* Execution requests the driver handles in one behaviour.
MaxExec == 3

\* Proposals committed beyond the capacity of the kv_update channel, in the
\* runs that fill it.
QueueSize == 1

\* const CHANNEL_SIZE: usize = 128
CHANNEL_SIZE == 128

\* Txn requests the driver handles in one behaviour of the Txn runs.
MaxTxnExec == 1

\* Range requests the driver handles in one behaviour of the Range runs.
MaxRangeExec == 1

---------------------------------------------------------------------------
(* Byte strings and their order                                            *)

RECURSIVE compare_vec_u8(_, _)
compare_vec_u8(val, target) ==
    IF val = <<>> /\ target = <<>> THEN "Equal"
    ELSE IF val = <<>> THEN "Less"
    ELSE IF target = <<>> THEN "Greater"
    ELSE IF Head(val) < Head(target) THEN "Less"
    ELSE IF Head(val) > Head(target) THEN "Greater"
    ELSE compare_vec_u8(Tail(val), Tail(target))

compare_i64(val, target) ==
    IF val > target THEN "Greater"
    ELSE IF val < target THEN "Less"
    ELSE "Equal"

BytesLess(a, b) == compare_vec_u8(a, b) = "Less"

\* The keys the requests of the model write.
Keys == {<<1>>, <<2>>}

\* The values the requests of the model carry.
Values == {<<7>>, <<8>>, <<9>>}

\* The propose ids of the model; a ProposeId is a name the client makes up.
ProposeIds == {1, 2}

\* KeyValue::default()
DefaultKeyValue ==
    [key |-> <<>>, value |-> <<>>, create_revision |-> 0,
     mod_revision |-> 0, version |-> 0, lease |-> 0]

\* HeaderGenerator starts the revision counter here.
InitialRevision == 1

---------------------------------------------------------------------------
(* Sequence helpers                                                        *)

RECURSIVE SeqConcat(_)
SeqConcat(ss) ==
    IF ss = <<>> THEN <<>> ELSE Head(ss) \o SeqConcat(Tail(ss))

SeqRange(s) == {s[i] : i \in 1..Len(s)}

\* The members of a set of keys, ascending (the iteration order of a BTreeMap).
RECURSIVE SortedKeys(_)
SortedKeys(S) ==
    IF S = {} THEN <<>>
    ELSE LET m == CHOOSE k \in S : \A o \in S : o = k \/ BytesLess(k, o)
         IN  <<m>> \o SortedKeys(S \ {m})

---------------------------------------------------------------------------
(* Index: key -> append-only history of KeyRevision                        *)

\* KeyRange containment: an empty range_end is a point lookup, key and
\* range_end both {0} select every key, otherwise the range is [key, range_end).
InRange(k, key, range_end) ==
    IF range_end = <<>> THEN k = key
    ELSE IF key = <<0>> /\ range_end = <<0>> THEN TRUE
    ELSE ~BytesLess(k, key) /\ BytesLess(k, range_end)

IsDeleted(kr) == kr.version = 0 /\ kr.create_revision = 0

AsRevision(kr) == <<kr.mod_revision, kr.sub_revision>>

\* The entry of one key that a read at `rev` selects: the last entry when
\* rev <= 0, the greatest entry with mod_revision <= rev otherwise; nothing
\* when there is no such entry or it is a tombstone.
get_revisions(revs, rev) ==
    LET upto == IF rev <= 0 THEN Len(revs)
                ELSE Cardinality({i \in 1..Len(revs) : revs[i].mod_revision <= rev})
    IN  IF upto = 0 THEN <<>>
        ELSE IF IsDeleted(revs[upto]) THEN <<>>
        ELSE <<AsRevision(revs[upto])>>

RangeKeys(idx, key, range_end) ==
    SortedKeys({k \in DOMAIN idx : InRange(k, key, range_end)})

index_get(idx, key, range_end, rev) ==
    LET ks == RangeKeys(idx, key, range_end)
    IN  SeqConcat([i \in 1..Len(ks) |-> get_revisions(idx[ks[i]], rev)])

\* Every entry of the range with mod_revision >= rev, by key then by revision.
index_get_from_rev(idx, key, range_end, rev) ==
    LET ks == RangeKeys(idx, key, range_end)
        from(revs) == SelectSeq(revs, LAMBDA kr : kr.mod_revision >= rev)
        coords(revs) == [j \in 1..Len(revs) |-> AsRevision(revs[j])]
    IN  SeqConcat([i \in 1..Len(ks) |-> coords(from(idx[ks[i]]))])

\* The KeyRevision that a write of `key` at (rev, sub) appends.
NewKeyRevision(idx, key, rev, sub) ==
    LET revs == idx[key]
        fresh == revs = <<>> \/ IsDeleted(revs[Len(revs)])
    IN  [create_revision |-> IF fresh THEN rev ELSE revs[Len(revs)].create_revision,
         mod_revision |-> rev,
         sub_revision |-> sub,
         version |-> IF fresh THEN 1 ELSE revs[Len(revs)].version + 1]

insert_or_update_revision(idx, key, rev, sub) ==
    LET new_rev == NewKeyRevision(idx, key, rev, sub)
    IN  [index |-> [idx EXCEPT ![key] = Append(@, new_rev)], new_rev |-> new_rev]

\* The live keys of the range, ascending: each gets a tombstone, at
\* sub-revisions sub, sub + 1, ...
LiveKeys(idx, key, range_end) ==
    LET ks == RangeKeys(idx, key, range_end)
    IN  SelectSeq(ks, LAMBDA k : idx[k] # <<>> /\ ~IsDeleted(idx[k][Len(idx[k])]))

\* Returns the index with the tombstones appended and, for each deleted
\* key, the pair <<revision of its previous entry, revision of its tombstone>>.
index_delete(idx, key, range_end, rev, sub) ==
    LET ks == LiveKeys(idx, key, range_end)
        pos(k) == CHOOSE i \in 1..Len(ks) : ks[i] = k
        tomb(i) == [create_revision |-> 0, mod_revision |-> rev,
                    sub_revision |-> sub + i - 1, version |-> 0]
    IN  [index |-> [k \in DOMAIN idx |->
                      IF k \in SeqRange(ks) THEN Append(idx[k], tomb(pos(k)))
                      ELSE idx[k]],
         revisions |-> [i \in 1..Len(ks) |->
                          <<AsRevision(idx[ks[i]][Len(idx[ks[i]])]),
                            <<rev, sub + i - 1>>>>]]

---------------------------------------------------------------------------
(* DB: Revision -> KeyValue                                                *)

db_insert(store, rev, kv) ==
    [r \in DOMAIN store \cup {rev} |-> IF r = rev THEN kv ELSE store[r]]

\* Order-preserving batch fetch; a revision the store does not hold is skipped.
db_get_values(store, revs) ==
    SeqConcat([i \in 1..Len(revs) |->
                 IF revs[i] \in DOMAIN store THEN <<store[revs[i]]>> ELSE <<>>])

\* For each <<previous, tombstone>> pair: records the deletion payload at the
\* tombstone revision and returns the kv the key had before.
RECURSIVE db_mark_deletions(_, _)
db_mark_deletions(store, revs) ==
    IF revs = <<>> THEN [db |-> store, prev_kvs |-> <<>>]
    ELSE LET prev_kv == store[Head(revs)[1]]
             del_kv == [DefaultKeyValue EXCEPT !.key = prev_kv.key,
                                               !.mod_revision = Head(revs)[2][1]]
             rest == db_mark_deletions(db_insert(store, Head(revs)[2], del_kv),
                                       Tail(revs))
         IN  [db |-> rest.db, prev_kvs |-> <<prev_kv>> \o rest.prev_kvs]

---------------------------------------------------------------------------
(* Speculative execution: reads the index and the db, writes sp_exec_pool  *)

Ok(resp) == [ok |-> TRUE, resp |-> resp]

\* ExecuteError::InvalidCommand
InvalidCommand == [ok |-> FALSE, resp |-> [type |-> "InvalidCommand"]]

get_range(idx, store, key, range_end, rev) ==
    db_get_values(store, index_get(idx, key, range_end, rev))

\* The field of a kv that a sort target names, and its order.
FieldGt(a, b, sort_target) ==
    CASE sort_target = "Key" -> compare_vec_u8(a.key, b.key) = "Greater"
      [] sort_target = "Value" -> compare_vec_u8(a.value, b.value) = "Greater"
      [] sort_target = "Version" -> a.version > b.version
      [] sort_target = "Create" -> a.create_revision > b.create_revision
      [] sort_target = "Mod" -> a.mod_revision > b.mod_revision

\* The comparator of sort_by: a sorts strictly after b.
After(a, b, sort_target, descend) ==
    IF descend THEN FieldGt(b, a, sort_target) ELSE FieldGt(a, b, sort_target)

\* slice::sort_by (stable): an element goes after those that sort before it
\* and after the equal ones that precede it.
SortBy(s, sort_target, descend) ==
    LET pos(i) == 1 + Cardinality({j \in 1..Len(s) :
                        \/ After(s[i], s[j], sort_target, descend)
                        \/ /\ ~After(s[i], s[j], sort_target, descend)
                           /\ ~After(s[j], s[i], sort_target, descend)
                           /\ j < i})
    IN  [p \in 1..Len(s) |-> s[CHOOSE i \in 1..Len(s) : pos(i) = p]]

\* The match on (sort_target, sort_order) of handle_range_request: (Key, None)
\* keeps the order of the index, None on another target sorts ascending.
SortKvs(kvs, sort_target, sort_order) ==
    IF sort_target = "Key" /\ sort_order = "None" THEN kvs
    ELSE SortBy(kvs, sort_target, sort_order = "Descend")

\* A slip: the test of count_only is inverted.
RangeResponse_Inverted(req, kvs) ==
    IF ~req.count_only
    THEN [type |-> "Range", count |-> Len(kvs), more |-> FALSE, kvs |-> <<>>]
    ELSE [type |-> "Range", count |-> Len(kvs), more |-> FALSE, kvs |-> kvs]

\* A slip: the response is cut, and more is set, when the range holds as many
\* kvs as the limit.
RangeResponse_MoreAtLimit(req, kvs) ==
    IF req.count_only
    THEN [type |-> "Range", count |-> Len(kvs), more |-> FALSE, kvs |-> <<>>]
    ELSE IF req.limit > 0 /\ Len(kvs) >= req.limit
         THEN [type |-> "Range", count |-> Len(kvs), more |-> TRUE,
               kvs |-> SubSeq(SortKvs(kvs, req.sort_target, req.sort_order),
                              1, req.limit)]
         ELSE [type |-> "Range", count |-> Len(kvs), more |-> FALSE,
               kvs |-> SortKvs(kvs, req.sort_target, req.sort_order)]

\* The response of handle_range_request, given the kvs of the range.
RangeResponse(req, kvs) ==
    IF req.count_only
    THEN [type |-> "Range", count |-> Len(kvs), more |-> FALSE, kvs |-> <<>>]
    ELSE IF req.limit > 0 /\ Len(kvs) > req.limit
         THEN [type |-> "Range", count |-> Len(kvs), more |-> TRUE,
               kvs |-> SubSeq(SortKvs(kvs, req.sort_target, req.sort_order),
                              1, req.limit)]
         ELSE [type |-> "Range", count |-> Len(kvs), more |-> FALSE,
               kvs |-> SortKvs(kvs, req.sort_target, req.sort_order)]

\* A slip: a speculative read also returns the Puts buffered in the pool.
handle_range_request_Pending(idx, store, req) ==
    RangeResponse(req,
        get_range(idx, store, req.key, req.range_end, req.revision)
        \o SeqConcat([id \in 1..Cardinality(ProposeIds) |->
               IF id \in DOMAIN sp_exec_pool
               THEN [i \in 1..Len(SelectSeq(sp_exec_pool[id], LAMBDA w :
                              w.type = "Put" /\ InRange(w.key, req.key, req.range_end))) |->
                       [DefaultKeyValue EXCEPT !.key = req.key]]
               ELSE <<>>]))

handle_range_request(idx, store, req) ==
    RangeResponse(req, get_range(idx, store, req.key, req.range_end, req.revision))

\* The result of handle_put_request, given the kvs of the key (at most one).
PutResponse(req, prev) ==
    IF prev = <<>> /\ (req.ignore_lease \/ req.ignore_value)
    THEN InvalidCommand
    ELSE Ok([type |-> "Put", prev_kv |-> IF req.prev_kv THEN prev ELSE <<>>])

handle_put_request(idx, store, req) ==
    PutResponse(req, get_range(idx, store, req.key, <<>>, 0))

\* A slip: deleted is the length of the prev_kvs of the response.
DeleteRangeResponse_Flagged(req, prev_kvs) ==
    [type |-> "DeleteRange",
     deleted |-> IF req.prev_kv THEN Len(prev_kvs) ELSE 0,
     prev_kvs |-> IF req.prev_kv THEN prev_kvs ELSE <<>>]

\* The response of handle_delete_range_request, given the kvs of the range.
DeleteRangeResponse(req, prev_kvs) ==
    [type |-> "DeleteRange",
     deleted |-> Len(prev_kvs),
     prev_kvs |-> IF req.prev_kv THEN prev_kvs ELSE <<>>]

handle_delete_range_request(idx, store, req) ==
    DeleteRangeResponse(req, get_range(idx, store, req.key, req.range_end, 0))

\* if let Some(TargetUnion::X(v)) = cmp.target_union
IsUnion(cmp, variant) ==
    cmp.target_union # <<>> /\ cmp.target_union[1].variant = variant

\* The operand of a Compare: the value of target_union when its variant is the
\* one the target asks for, the default (0, or the empty byte string) otherwise.
Operand(cmp, variant, default) ==
    IF IsUnion(cmp, variant) THEN cmp.target_union[1].v ELSE default

\* The first match of compare_kv: the field of the kv against the operand.
CompareField(cmp, kv) ==
    CASE cmp.target = "Version" ->
           compare_i64(kv.version, Operand(cmp, "Version", 0))
      [] cmp.target = "Create" ->
           compare_i64(kv.create_revision, Operand(cmp, "CreateRevision", 0))
      [] cmp.target = "Mod" ->
           compare_i64(kv.mod_revision, Operand(cmp, "ModRevision", 0))
      [] cmp.target = "Value" ->
           compare_vec_u8(kv.value, Operand(cmp, "Value", <<>>))
      [] cmp.target = "Lease" ->
           compare_i64(kv.mod_revision, Operand(cmp, "Lease", 0))

\* The second match of compare_kv: the comparison the Compare asks for.
CompareHolds(want, result) ==
    CASE want = "Equal" -> result = "Equal"
      [] want = "Greater" -> result = "Greater"
      [] want = "Less" -> result = "Less"
      [] want = "NotEqual" -> result # "Equal"

compare_kv(cmp, kv) == CompareHolds(cmp.result, CompareField(cmp, kv))

\* A slip: a Compare holds when it holds for one kv of the range.
CheckCompareKvs_Any(cmp, kvs) ==
    IF kvs = <<>>
    THEN IF IsUnion(cmp, "Value") THEN FALSE
         ELSE compare_kv(cmp, DefaultKeyValue)
    ELSE \E i \in 1..Len(kvs) : compare_kv(cmp, kvs[i])

\* check_compare, given the kvs of the range of the Compare.
CheckCompareKvs(cmp, kvs) ==
    IF kvs = <<>>
    THEN IF IsUnion(cmp, "Value") THEN FALSE
         ELSE compare_kv(cmp, DefaultKeyValue)
    ELSE \A i \in 1..Len(kvs) : compare_kv(cmp, kvs[i])

check_compare(idx, store, cmp) ==
    CheckCompareKvs(cmp, get_range(idx, store, cmp.key, cmp.range_end, 0))

\* A slip: the entry is inserted into a new map, which drops the other proposals.
PoolEntry_NewMap(pool, id, wrapper) ==
    IF wrapper.type = "Txn"
    THEN IF id \in DOMAIN pool THEN pool ELSE (id :> <<>>) @@ pool
    ELSE IF id \in DOMAIN pool THEN (id :> Append(pool[id], wrapper))
         ELSE (id :> <<wrapper>>)

\* A slip: a Txn is pushed on the entry like any other request.
PoolEntry_TxnPushed(pool, id, wrapper) ==
    IF id \in DOMAIN pool THEN [pool EXCEPT ![id] = Append(@, wrapper)]
    ELSE (id :> <<wrapper>>) @@ pool

\* A slip: a Txn does not touch the pool, its branch requests make the entry.
PoolEntry_TxnNoEntry(pool, id, wrapper) ==
    IF wrapper.type = "Txn" THEN pool
    ELSE IF id \in DOMAIN pool THEN [pool EXCEPT ![id] = Append(@, wrapper)]
         ELSE (id :> <<wrapper>>) @@ pool

\* sp_exec_pool.entry(id): a Txn makes sure the entry exists, any other
\* request is pushed on it. This happens before the request is handled.
PoolEntry(pool, id, wrapper) ==
    IF wrapper.type = "Txn"
    THEN IF id \in DOMAIN pool THEN pool ELSE (id :> <<>>) @@ pool
    ELSE IF id \in DOMAIN pool THEN [pool EXCEPT ![id] = Append(@, wrapper)]
         ELSE (id :> <<wrapper>>) @@ pool

\* A result [ok, resp] together with the pool it leaves.
WithPool(pool, result) ==
    [pool |-> pool, ok |-> result.ok, resp |-> result.resp]

RECURSIVE HandleWrapper(_, _, _, _, _)
RECURSIVE handle_txn_request(_, _, _, _, _)
RECURSIVE TxnResponses(_, _, _, _, _, _)
RECURSIVE TxnPush(_, _, _, _, _, _)

\* The match of handle_kv_requests on the kind of the request.
HandleWrapper(pool, idx, store, id, wrapper) ==
    CASE wrapper.type = "Range" ->
           WithPool(pool, Ok(handle_range_request(idx, store, wrapper)))
      [] wrapper.type = "Put" ->
           WithPool(pool, handle_put_request(idx, store, wrapper))
      [] wrapper.type = "DeleteRange" ->
           WithPool(pool, Ok(handle_delete_range_request(idx, store, wrapper)))
      [] wrapper.type = "Txn" ->
           handle_txn_request(pool, idx, store, id, wrapper)

\* Returns [pool, ok, resp]: the pool after the request, and Ok(response) or
\* the error.
handle_kv_requests(pool, idx, store, id, wrapper) ==
    HandleWrapper(PoolEntry(pool, id, wrapper), idx, store, id, wrapper)

\* Part of the slip below: the index and the db with a Put written to them.
TxnPush_AppliedPut(idx, store, req, ins) ==
    [index |-> ins.index,
     db |-> db_insert(store, AsRevision(ins.new_rev),
                      [key |-> req.key, value |-> req.value,
                       create_revision |-> ins.new_rev.create_revision,
                       mod_revision |-> ins.new_rev.mod_revision,
                       version |-> ins.new_rev.version, lease |-> req.lease])]

\* A slip: the Put just handled is written to the index and the db that the
\* rest of the branch reads.
TxnPush_Applied(r, idx, store, id, rest, responses) ==
    IF ~r.ok THEN r
    ELSE IF r.pool[id] = <<>> \/ r.pool[id][Len(r.pool[id])].type # "Put"
         THEN TxnResponses(r.pool, idx, store, id, rest, Append(responses, r.resp))
         ELSE TxnResponses(r.pool,
                  TxnPush_AppliedPut(idx, store, r.pool[id][Len(r.pool[id])],
                             insert_or_update_revision(idx,
                                 r.pool[id][Len(r.pool[id])].key,
                                 InitialRevision + 2, 0)).index,
                  TxnPush_AppliedPut(idx, store, r.pool[id][Len(r.pool[id])],
                             insert_or_update_revision(idx,
                                 r.pool[id][Len(r.pool[id])].key,
                                 InitialRevision + 2, 0)).db,
                  id, rest, Append(responses, r.resp))

\* One turn of the loop of handle_txn_request: the error of a request ends the
\* loop (the ? operator), its response is pushed otherwise.
TxnPush(r, idx, store, id, rest, responses) ==
    IF ~r.ok THEN r
    ELSE TxnResponses(r.pool, idx, store, id, rest, Append(responses, r.resp))

TxnResponses(pool, idx, store, id, requests, responses) ==
    IF requests = <<>> THEN WithPool(pool, Ok(responses))
    ELSE TxnPush(handle_kv_requests(pool, idx, store, id, Head(requests)),
                 idx, store, id, Tail(requests), responses)

\* The TxnResponse, or the error of the loop.
TxnResult(success, r) ==
    IF ~r.ok THEN r
    ELSE WithPool(r.pool, Ok([type |-> "Txn", succeeded |-> success,
                              responses |-> r.resp]))

TxnBranch(pool, idx, store, id, req, success) ==
    TxnResult(success,
              TxnResponses(pool, idx, store, id,
                           IF success THEN req.success ELSE req.failure, <<>>))

handle_txn_request(pool, idx, store, id, req) ==
    TxnBranch(pool, idx, store, id, req,
              \A i \in 1..Len(req.compare) :
                  check_compare(idx, store, req.compare[i]))

---------------------------------------------------------------------------
(* Sync: applies the buffered requests of a proposal                       *)

sync_range_request(req) == <<>>

\* slice::first().cloned()
First(kvs) == IF kvs = <<>> THEN <<>> ELSE <<Head(kvs)>>

\* A slip: create_revision is taken from mod_revision.
PutKeyValue_CreateIsMod(req, new_rev, prev_kv) ==
    [key |-> req.key,
     value |-> IF req.ignore_value THEN prev_kv[1].value ELSE req.value,
     create_revision |-> new_rev.mod_revision,
     mod_revision |-> new_rev.mod_revision,
     version |-> new_rev.version,
     lease |-> IF req.ignore_lease THEN prev_kv[1].lease ELSE req.lease]

\* A slip: the value and the lease of the request are stored, copy or not.
PutKeyValue_FromRequest(req, new_rev, prev_kv) ==
    [key |-> req.key,
     value |-> req.value,
     create_revision |-> new_rev.create_revision,
     mod_revision |-> new_rev.mod_revision,
     version |-> new_rev.version,
     lease |-> req.lease]

\* The KeyValue that sync_put_request stores.
PutKeyValue(req, new_rev, prev_kv) ==
    [key |-> req.key,
     value |-> IF req.ignore_value THEN prev_kv[1].value ELSE req.value,
     create_revision |-> new_rev.create_revision,
     mod_revision |-> new_rev.mod_revision,
     version |-> new_rev.version,
     lease |-> IF req.ignore_lease THEN prev_kv[1].lease ELSE req.lease]

PutEvent(kv, prev_kv) == [type |-> "Put", kv |-> <<kv>>, prev_kv |-> prev_kv]

\* The end of sync_put_request: the kv goes to the db and into the event.
PutStore(store, ins, kv, prev_kv) ==
    [index |-> ins.index,
     db |-> db_insert(store, AsRevision(ins.new_rev), kv),
     events |-> <<PutEvent(kv, prev_kv)>>]

PutInsert(store, req, ins, prev_kv) ==
    PutStore(store, ins, PutKeyValue(req, ins.new_rev, prev_kv), prev_kv)

\* sync_put_request, given the previous kv of the key.
PutSync(idx, store, req, rev, sub, prev_kv) ==
    IF prev_kv = <<>> /\ (req.ignore_lease \/ req.ignore_value)
    THEN [index |-> idx, db |-> store, events |-> <<>>]
    ELSE PutInsert(store, req,
                   insert_or_update_revision(idx, req.key, rev, sub), prev_kv)

\* Returns [index, db, events].
sync_put_request(idx, store, req, rev, sub) ==
    PutSync(idx, store, req, rev, sub,
            First(get_range(idx, store, req.key, <<>>, 0)))

new_deletion_events(rev, prev_kvs) ==
    [i \in 1..Len(prev_kvs) |->
       [type |-> "Delete",
        kv |-> <<[DefaultKeyValue EXCEPT !.key = prev_kvs[i].key,
                                         !.mod_revision = rev]>>,
        prev_kv |-> <<prev_kvs[i]>>]]

DeleteEvents(idx, rev, marked) ==
    [index |-> idx, db |-> marked.db,
     events |-> new_deletion_events(rev, marked.prev_kvs)]

DeleteMark(store, rev, del) ==
    DeleteEvents(del.index, rev, db_mark_deletions(store, del.revisions))

\* A slip: the tombstones start at sub-revision 0, not at sub_revision.
sync_delete_range_request_SubZero(idx, store, req, rev, sub) ==
    DeleteMark(store, rev, index_delete(idx, req.key, req.range_end, rev, 0))

\* Returns [index, db, events].
sync_delete_range_request(idx, store, req, rev, sub) ==
    DeleteMark(store, rev, index_delete(idx, req.key, req.range_end, rev, sub))

NoPanic(r) ==
    [index |-> r.index, db |-> r.db, events |-> r.events, panic |-> FALSE]

\* Returns [index, db, events, panic]: a TxnRequest in the pool is a panic.
sync_request(idx, store, req, rev, sub) ==
    CASE req.type = "Range" ->
           [index |-> idx, db |-> store, events |-> sync_range_request(req),
            panic |-> FALSE]
      [] req.type = "Put" ->
           NoPanic(sync_put_request(idx, store, req, rev, sub))
      [] req.type = "DeleteRange" ->
           NoPanic(sync_delete_range_request(idx, store, req, rev, sub))
      [] req.type = "Txn" ->
           [index |-> idx, db |-> store, events |-> <<>>, panic |-> TRUE]

RECURSIVE SyncLoop(_, _, _, _, _, _, _)
RECURSIVE SyncTurn(_, _, _, _, _, _)

\* One turn of the loop of sync_requests, given the events of the request.
SyncTurn(r, rest, next_revision, sub_revision, modify, all_events) ==
    IF r.panic
    THEN [index |-> r.index, db |-> r.db, modify |-> modify,
          all_events |-> all_events, panic |-> TRUE]
    ELSE SyncLoop(r.index, r.db, rest, next_revision,
                  sub_revision + Len(r.events),
                  modify \/ r.events # <<>>,
                  all_events \o r.events)

\* The loop of sync_requests: each request starts at the sub-revision the
\* events before it have reached.
SyncLoop(idx, store, requests, next_revision, sub_revision, modify, all_events) ==
    IF requests = <<>>
    THEN [index |-> idx, db |-> store, modify |-> modify,
          all_events |-> all_events, panic |-> FALSE]
    ELSE SyncTurn(sync_request(idx, store, Head(requests), next_revision,
                               sub_revision),
                  Tail(requests), next_revision, sub_revision, modify, all_events)

\* A slip: the revision is stored whether or not a request produced an event.
SyncResult_AlwaysStored(rev, next_revision, r) ==
    [index |-> r.index, db |-> r.db, panic |-> r.panic,
     counter |-> IF ~r.panic THEN next_revision ELSE rev,
     revision |-> IF r.modify /\ ~r.panic THEN next_revision ELSE rev,
     events |-> IF r.modify /\ ~r.panic THEN <<r.all_events>> ELSE <<>>]

\* A slip: the old revision is returned with the events.
SyncResult_OldReturned(rev, next_revision, r) ==
    [index |-> r.index, db |-> r.db, panic |-> r.panic,
     counter |-> IF r.modify /\ ~r.panic THEN next_revision ELSE rev,
     revision |-> rev,
     events |-> IF r.modify /\ ~r.panic THEN <<r.all_events>> ELSE <<>>]

\* A slip: the next revision is returned but never stored.
SyncResult_NeverStored(rev, next_revision, r) ==
    [index |-> r.index, db |-> r.db, panic |-> r.panic,
     counter |-> rev,
     revision |-> IF r.modify /\ ~r.panic THEN next_revision ELSE rev,
     events |-> IF r.modify /\ ~r.panic THEN <<r.all_events>> ELSE <<>>]

\* The end of sync_requests: when a request produced an event the next
\* revision is stored in the counter and returned with the events.
SyncResult(rev, next_revision, r) ==
    [index |-> r.index, db |-> r.db, panic |-> r.panic,
     counter |-> IF r.modify /\ ~r.panic THEN next_revision ELSE rev,
     revision |-> IF r.modify /\ ~r.panic THEN next_revision ELSE rev,
     events |-> IF r.modify /\ ~r.panic THEN <<r.all_events>> ELSE <<>>]

\* Returns [index, db, counter, revision, events, panic]: counter is the value
\* of the revision counter after the call, revision the revision returned,
\* events None (<<>>) when no request produced an event and Some(all_events)
\* otherwise.
sync_requests(idx, store, rev, requests) ==
    SyncResult(rev, rev + 1,
               SyncLoop(idx, store, requests, rev + 1, 0, FALSE, <<>>))

EventsOf(values) ==
    [i \in 1..Len(values) |->
       [type |-> IF values[i].version = 0 /\ values[i].create_revision = 0
                 THEN "Delete" ELSE "Put",
        kv |-> <<values[i]>>,
        prev_kv |-> <<>>]]

---------------------------------------------------------------------------
(* The requests the driver is given                                        *)

RangeReq(key, range_end) ==
    [type |-> "Range", key |-> key, range_end |-> range_end, revision |-> 0,
     limit |-> 0, count_only |-> FALSE, sort_target |-> "Key",
     sort_order |-> "None"]

PutReq(key, value, lease, prev_kv, ignore_value, ignore_lease) ==
    [type |-> "Put", key |-> key, value |-> value, lease |-> lease,
     prev_kv |-> prev_kv, ignore_value |-> ignore_value,
     ignore_lease |-> ignore_lease]

DeleteRangeReq(key, range_end, prev_kv) ==
    [type |-> "DeleteRange", key |-> key, range_end |-> range_end,
     prev_kv |-> prev_kv]

TxnReq(compare, success, failure) ==
    [type |-> "Txn", compare |-> compare, success |-> success,
     failure |-> failure]

CompareOf(result, target, key, range_end, target_union) ==
    [result |-> result, target |-> target, key |-> key,
     range_end |-> range_end, target_union |-> target_union]

RangeRequests ==
    {RangeReq(<<1>>, <<>>), RangeReq(<<1>>, <<3>>)}

PutRequests ==
    {PutReq(<<1>>, <<7>>, 0, FALSE, FALSE, FALSE),
     PutReq(<<1>>, <<8>>, 1, TRUE, FALSE, FALSE),
     PutReq(<<1>>, <<9>>, 1, FALSE, TRUE, FALSE),
     PutReq(<<1>>, <<7>>, 2, FALSE, FALSE, TRUE),
     PutReq(<<2>>, <<8>>, 1, FALSE, FALSE, FALSE)}

DeleteRangeRequests ==
    {DeleteRangeReq(<<1>>, <<>>, FALSE),
     DeleteRangeReq(<<0>>, <<0>>, TRUE)}

TxnRequests ==
    {TxnReq(<<CompareOf("Equal", "Version", <<1>>, <<>>,
                        <<[variant |-> "Version", v |-> 1]>>)>>,
            <<PutReq(<<1>>, <<8>>, 1, FALSE, FALSE, FALSE)>>,
            <<PutReq(<<1>>, <<7>>, 0, FALSE, FALSE, FALSE)>>),
     TxnReq(<<>>,
            <<PutReq(<<2>>, <<8>>, 1, FALSE, FALSE, FALSE),
              PutReq(<<1>>, <<8>>, 1, FALSE, TRUE, FALSE)>>,
            <<>>),
     TxnReq(<<>>,
            <<PutReq(<<1>>, <<7>>, 0, FALSE, FALSE, FALSE),
              DeleteRangeReq(<<1>>, <<3>>, TRUE),
              PutReq(<<1>>, <<8>>, 1, FALSE, FALSE, FALSE)>>,
            <<>>),
     TxnReq(<<>>,
            <<TxnReq(<<>>, <<PutReq(<<2>>, <<8>>, 1, FALSE, FALSE, FALSE)>>, <<>>),
              RangeReq(<<2>>, <<>>)>>,
            <<>>)}

Requests == RangeRequests \cup PutRequests \cup DeleteRangeRequests \cup TxnRequests

---------------------------------------------------------------------------
(* The driver                                                              *)

Init ==
    /\ revision = InitialRevision
    /\ index = [k \in Keys |-> <<>>]
    /\ db = <<>>
    /\ sp_exec_pool = <<>>
    /\ kv_update = <<>>
    /\ last = [op |-> "init"]
    /\ executed = [id \in ProposeIds |-> <<>>]
    /\ alive = TRUE
    /\ nexec = 0
    /\ ranged = {}
    /\ received = 0
    /\ sending = <<>>
    /\ exec_rx = <<>>
    /\ sync_rx = <<>>
    /\ syncing = <<>>
    /\ watched = <<>>
    /\ callers = {}

\* What the driver leaves behind when an assert or an unwrap fails: the task
\* ends; `at` names the place.
Panicked(id, at) == [op |-> "panic", id |-> id, at |-> at]

\* assert!(res_sender.send(result).is_ok()): the pool is as handle_kv_requests
\* left it; `open` says that the caller still holds the receiver of the reply,
\* the assert fails when it was dropped.
ExecReply(id, req, r, open) ==
    /\ sp_exec_pool' = r.pool
    /\ alive' = open
    /\ last' = IF open
               THEN [op |-> "exec", id |-> id, req |-> req, ok |-> r.ok,
                     resp |-> r.resp]
               ELSE Panicked(id, "exec")
    /\ executed' = [executed EXCEPT ![id] = Append(@, [req |-> req, ok |-> r.ok])]
    /\ ranged' = IF open /\ req.type = "Range"
                 THEN ranged \cup {[id |-> id, req |-> req, resp |-> r.resp]}
                 ELSE ranged

\* The id of an execution request is that of a proposal in the pool, or a new
\* one: generate_propose_id makes a fresh name, the model takes the least id
\* that is not in the pool.
ProposedId(id) ==
    \/ id \in DOMAIN sp_exec_pool
    \/ \A p \in ProposeIds : p < id => p \in DOMAIN sp_exec_pool

\* The driver task owns the receivers exec_rx and sync_rx: while it runs the
\* messages stay queued, when it ends on a panic the receivers are dropped
\* with the messages they hold and the two channels are closed.
DriverTask(running) ==
    /\ exec_rx' = IF running THEN exec_rx ELSE <<>>
    /\ sync_rx' = IF running THEN sync_rx ELSE <<>>

\* The driver task is at its select!: it has not panicked and it is not
\* inside the sync_cmd it awaits.
DriverIdle == alive /\ syncing = <<>> /\ sending = <<>>

\* cmd_req = exec_rx.recv() => inner.speculative_exec(req)
speculative_exec(id, req, open) ==
    /\ DriverIdle
    /\ nexec < MaxExec
    /\ ProposedId(id)
    /\ ExecReply(id, req, handle_kv_requests(sp_exec_pool, index, db, id, req),
                 open)
    /\ nexec' = nexec + 1
    /\ DriverTask(open)
    /\ UNCHANGED <<revision, index, db, kv_update, received, sending, syncing,
                   watched, callers>>

\* A slip: the requests are applied last to first.
SyncLocals_Reversed(id, requests, rev, found) ==
    [id |-> id, requests |-> requests,
     rest |-> [i \in 1..Len(requests) |-> requests[Len(requests) + 1 - i]],
     revision |-> rev, sub_revision |-> 0, modify |-> FALSE,
     all_events |-> <<>>, pc |-> "loop", pending |-> <<>>, found |-> found]

\* The locals of a sync_cmd and of the sync_requests it calls: the propose id
\* and the requests taken from the pool, the requests the loop has not
\* reached (rest), the revision read at the start, sub_revision, modify and
\* all_events; pc is the place of the driver in the call ("loop", "db" between
\* the index call and the db call of a request, "reply" after the loop) and
\* pending what the next call is given. `found` is the index, the db and the
\* executes of the proposal as sync_cmd found them, kept for the properties.
SyncLocals(id, requests, rev, found) ==
    [id |-> id, requests |-> requests, rest |-> requests, revision |-> rev,
     sub_revision |-> 0, modify |-> FALSE, all_events |-> <<>>,
     pc |-> "loop", pending |-> <<>>, found |-> found]

\* The start of sync_cmd: the entry of the proposal is removed from the pool
\* under its lock, sync_requests reads the revision and sets up its locals.
SyncTake(id) ==
    /\ sp_exec_pool' = [p \in DOMAIN sp_exec_pool \ {id} |-> sp_exec_pool[p]]
    /\ syncing' = <<SyncLocals(id, sp_exec_pool[id], revision,
                               [index |-> index, db |-> db,
                                executed |-> executed[id]])>>
    /\ executed' = [executed EXCEPT ![id] = <<>>]
    /\ ranged' = {}

\* sync_req = sync_rx.recv() => inner.sync_cmd(req).await, the proposal is in
\* the pool.
sync_cmd(id) ==
    /\ DriverIdle
    /\ id \in DOMAIN sp_exec_pool
    /\ SyncTake(id)
    /\ UNCHANGED <<revision, index, db, kv_update, last, alive, nexec, received,
                   sending, exec_rx, sync_rx, watched, callers>>

\* A slip: unwrap_or_default, a proposal that is not in the pool is synced as
\* one of no requests.
sync_cmd_missing_Default(id) ==
    /\ DriverIdle
    /\ id \notin DOMAIN sp_exec_pool
    /\ last' = [op |-> "sync", id |-> id, requests |-> <<>>,
                revision |-> revision, events |-> <<>>]
    /\ UNCHANGED <<revision, index, db, sp_exec_pool, kv_update, executed, alive,
                   nexec, ranged, received, sending, exec_rx, sync_rx, syncing,
                   watched, callers>>

\* sync_cmd for a propose id that is not in the pool: the unwrap_or_else
\* panics and the driver task ends.
sync_cmd_missing(id) ==
    /\ DriverIdle
    /\ id \notin DOMAIN sp_exec_pool
    /\ alive' = FALSE
    /\ last' = Panicked(id, "pool")
    /\ DriverTask(FALSE)
    /\ UNCHANGED <<revision, index, db, sp_exec_pool, kv_update, executed, nexec,
                   ranged, received, sending, syncing, watched, callers>>

\* The request reaches a call of the index: a DeleteRange, or a Put that does
\* not return early for want of a previous kv to copy from.
CallsIndex(idx, store, req) ==
    \/ req.type = "DeleteRange"
    \/ /\ req.type = "Put"
       /\ ~(/\ First(get_range(idx, store, req.key, <<>>, 0)) = <<>>
            /\ (req.ignore_lease \/ req.ignore_value))

\* sync_request of the request the loop has reached, on the index and the db
\* as they are.
SyncHead(s) ==
    sync_request(index, db, Head(s.rest), s.revision + 1, s.sub_revision)

\* A slip: the sub-revision is not advanced by the events of the request.
SyncAdvance_SubKept(s, events) ==
    [s EXCEPT !.rest = Tail(s.rest),
              !.modify = s.modify \/ events # <<>>,
              !.all_events = s.all_events \o events,
              !.pc = "loop",
              !.pending = <<>>]

\* The end of a turn of the loop of sync_requests, given the events of the
\* request.
SyncAdvance(s, events) ==
    [s EXCEPT !.rest = Tail(s.rest),
              !.sub_revision = s.sub_revision + Len(events),
              !.modify = s.modify \/ events # <<>>,
              !.all_events = s.all_events \o events,
              !.pc = "loop",
              !.pending = <<>>]

\* The index call of a request returned: the index is written, the db is not;
\* the kv or the revisions the db call is given are fixed.
IndexWrite(s, r) ==
    /\ index' = r.index
    /\ syncing' = <<[s EXCEPT !.pc = "db",
                              !.pending = <<[db |-> r.db, events |-> r.events]>>]>>

\* sync_put_request up to index.insert_or_update_revision, or
\* sync_delete_range_request up to index.delete.
sync_request_index ==
    /\ alive
    /\ syncing # <<>>
    /\ syncing[1].pc = "loop"
    /\ syncing[1].rest # <<>>
    /\ CallsIndex(index, db, Head(syncing[1].rest))
    /\ IndexWrite(syncing[1], SyncHead(syncing[1]))
    /\ UNCHANGED <<revision, db, sp_exec_pool, kv_update, last, executed, alive,
                   nexec, ranged, received, sending, exec_rx, sync_rx, watched,
                   callers>>

\* db.insert of sync_put_request, or db.mark_deletions of
\* sync_delete_range_request, and the rest of the turn of the loop.
sync_request_db ==
    /\ alive
    /\ syncing # <<>>
    /\ syncing[1].pc = "db"
    /\ db' = syncing[1].pending[1].db
    /\ syncing' = <<SyncAdvance(syncing[1], syncing[1].pending[1].events)>>
    /\ UNCHANGED <<revision, index, sp_exec_pool, kv_update, last, executed,
                   alive, nexec, ranged, received, sending, exec_rx, sync_rx,
                   watched, callers>>

\* A turn that calls neither the index nor the db, given what sync_request
\* returned: no event; a TxnRequest is a panic.
NoWrite(s, r) ==
    /\ alive' = ~r.panic
    /\ last' = IF r.panic THEN Panicked(s.id, "txn") ELSE last
    /\ syncing' = IF r.panic THEN <<>> ELSE <<SyncAdvance(s, r.events)>>
    /\ DriverTask(~r.panic)

\* sync_range_request, the early return of sync_put_request, and the panic of
\* sync_request on a TxnRequest.
sync_request_none ==
    /\ alive
    /\ syncing # <<>>
    /\ syncing[1].pc = "loop"
    /\ syncing[1].rest # <<>>
    /\ ~CallsIndex(index, db, Head(syncing[1].rest))
    /\ NoWrite(syncing[1], SyncHead(syncing[1]))
    /\ UNCHANGED <<revision, index, db, sp_exec_pool, kv_update, executed, nexec,
                   ranged, received, sending, watched, callers>>

\* The end of sync_requests, given its result: the revision counter is
\* stored, what sync_cmd replies and sends is fixed.
Store(s, r) ==
    /\ revision' = r.counter
    /\ syncing' = <<[s EXCEPT !.pc = "reply",
                              !.pending = <<[revision |-> r.revision,
                                             events |-> r.events]>>]>>

\* if modify { *self.revision.lock() = next_revision; ... }
sync_requests_store ==
    /\ alive
    /\ syncing # <<>>
    /\ syncing[1].pc = "loop"
    /\ syncing[1].rest = <<>>
    /\ Store(syncing[1],
             SyncResult(syncing[1].revision, syncing[1].revision + 1,
                        [index |-> index, db |-> db,
                         modify |-> syncing[1].modify,
                         all_events |-> syncing[1].all_events,
                         panic |-> FALSE]))
    /\ UNCHANGED <<index, db, sp_exec_pool, kv_update, last, executed, alive,
                   nexec, ranged, received, sending, exec_rx, sync_rx, watched,
                   callers>>

\* What sync_cmd does with the result of sync_requests: the revision is
\* replied, and the tuple of the events, if any, is what notify_updates is
\* called with. The assert fails when the caller dropped the receiver.
SyncReply(s, r, open) ==
    /\ alive' = open
    /\ last' = IF open
               THEN [op |-> "sync", id |-> s.id, requests |-> s.requests,
                     revision |-> r.revision, events |-> r.events]
               ELSE Panicked(s.id, "sync")
    /\ sending' = IF open /\ r.events # <<>>
                  THEN <<[revision |-> r.revision, events |-> r.events[1]]>>
                  ELSE <<>>
    /\ syncing' = <<>>

\* assert!(res_sender.send(SyncResponse::new(revision)).is_ok())
sync_cmd_reply(open) ==
    /\ alive
    /\ syncing # <<>>
    /\ syncing[1].pc = "reply"
    /\ SyncReply(syncing[1], syncing[1].pending[1], open)
    /\ DriverTask(open)
    /\ UNCHANGED <<revision, index, db, sp_exec_pool, kv_update, executed, nexec,
                   ranged, received, watched, callers>>

\* The channel holds the tuples sent and not yet taken; a send needs room.
HasRoom == Len(kv_update) - received < CHANNEL_SIZE

\* self.notify_updates(revision, events).await: kv_update_tx.send completes
\* when the channel has room, it takes the tuple, sync_cmd returns and the
\* driver is back at its select!.
notify_updates ==
    /\ alive
    /\ sending # <<>>
    /\ HasRoom
    /\ kv_update' = Append(kv_update, sending[1])
    /\ sending' = <<>>
    /\ UNCHANGED <<revision, index, db, sp_exec_pool, last, executed, alive,
                   nexec, ranged, received, exec_rx, sync_rx, syncing, watched,
                   callers>>

Next ==
    \/ \E id \in ProposeIds, req \in Requests, open \in BOOLEAN :
          speculative_exec(id, req, open)
    \/ \E id \in ProposeIds : sync_cmd(id)
    \/ \E id \in ProposeIds : sync_cmd_missing(id)
    \/ sync_request_index
    \/ sync_request_db
    \/ sync_request_none
    \/ sync_requests_store
    \/ \E open \in BOOLEAN : sync_cmd_reply(open)
    \/ notify_updates

Spec == Init /\ [][Next]_vars

---------------------------------------------------------------------------
(* Runs of few requests of every reply: the entries of the pool            *)

\* The requests of these runs: two Puts, each an event, and two requests that
\* write nothing, a Range and a Txn of no request.
PoolRequests ==
    {PutReq(<<1>>, <<7>>, 0, FALSE, FALSE, FALSE),
     PutReq(<<2>>, <<8>>, 1, FALSE, FALSE, FALSE),
     RangeReq(<<1>>, <<>>),
     TxnReq(<<>>, <<>>, <<>>)}

NextPool ==
    \/ \E id \in ProposeIds, req \in PoolRequests, open \in BOOLEAN :
          speculative_exec(id, req, open)
    \/ \E id \in ProposeIds : sync_cmd(id)
    \/ \E id \in ProposeIds : sync_cmd_missing(id)
    \/ sync_request_index
    \/ sync_request_db
    \/ sync_request_none
    \/ sync_requests_store
    \/ \E open \in BOOLEAN : sync_cmd_reply(open)
    \/ notify_updates

SpecPool == Init /\ [][NextPool]_vars

---------------------------------------------------------------------------
(* Runs with a KV watcher that takes the tuples, on a channel that fills   *)

\* The request of these runs: a Put, an event at every commit.
QueuePut == PutReq(<<1>>, <<7>>, 0, FALSE, FALSE, FALSE)

\* The execution request of these runs: a proposal of the one Put, executed
\* when the proposal before it was committed, as many as fill the channel and
\* QueueSize more.
queue_exec ==
    /\ DriverIdle
    /\ nexec < CHANNEL_SIZE + QueueSize
    /\ sp_exec_pool = <<>>
    /\ ExecReply(1, QueuePut,
                 handle_kv_requests(sp_exec_pool, index, db, 1, QueuePut), TRUE)
    /\ nexec' = nexec + 1
    /\ UNCHANGED <<revision, index, db, kv_update, received, sending, exec_rx,
                   sync_rx, syncing, watched, callers>>

\* The KV watcher takes the oldest tuple from kv_update_rx.
kv_update_recv ==
    /\ received < Len(kv_update)
    /\ received' = received + 1
    /\ UNCHANGED <<revision, index, db, sp_exec_pool, kv_update, last, executed,
                   alive, nexec, ranged, sending, exec_rx, sync_rx, syncing,
                   watched, callers>>

NextQueue ==
    \/ queue_exec
    \/ \E id \in ProposeIds : sync_cmd(id)
    \/ sync_request_index
    \/ sync_request_db
    \/ sync_requests_store
    \/ \E open \in BOOLEAN : sync_cmd_reply(open)
    \/ notify_updates
    \/ kv_update_recv

SpecQueue == Init /\ [][NextQueue]_vars

---------------------------------------------------------------------------
(* Txn runs: one committed proposal, then Txns with every shape of Compare *)

\* The requests of the proposal committed before the Txns: no key, one key,
\* two keys of different value and lease, a key written twice beside a key
\* written once, a deleted key beside a live one.
SeedLists ==
    {<<>>,
     <<PutReq(<<1>>, <<7>>, 0, FALSE, FALSE, FALSE)>>,
     <<PutReq(<<1>>, <<7>>, 0, FALSE, FALSE, FALSE),
       PutReq(<<2>>, <<8>>, 1, FALSE, FALSE, FALSE)>>,
     <<PutReq(<<1>>, <<7>>, 0, FALSE, FALSE, FALSE),
       PutReq(<<2>>, <<7>>, 0, FALSE, FALSE, FALSE),
       PutReq(<<1>>, <<7>>, 0, FALSE, FALSE, FALSE)>>,
     <<PutReq(<<1>>, <<7>>, 0, FALSE, FALSE, FALSE),
       PutReq(<<2>>, <<8>>, 1, FALSE, FALSE, FALSE),
       DeleteRangeReq(<<1>>, <<>>, FALSE)>>}

CompareTargets == {"Version", "Create", "Mod", "Value", "Lease"}

CompareResults == {"Equal", "Greater", "Less", "NotEqual"}

\* The variant of TargetUnion that goes with a target, with an operand.
OwnUnion(target) ==
    CASE target = "Version" -> [variant |-> "Version", v |-> 1]
      [] target = "Create" -> [variant |-> "CreateRevision", v |-> 2]
      [] target = "Mod" -> [variant |-> "ModRevision", v |-> 2]
      [] target = "Value" -> [variant |-> "Value", v |-> <<7>>]
      [] target = "Lease" -> [variant |-> "Lease", v |-> 1]

\* Option<TargetUnion> beside a target: unset, the variant of the target, and
\* a variant of another target (the two fields are set independently).
TargetUnions(target) ==
    {<<>>,
     <<OwnUnion(target)>>,
     <<OwnUnion(IF target = "Value" THEN "Version" ELSE "Value")>>}

\* A Compare of every target, comparison and operand, on one key and on the
\* range of both keys.
Compares ==
    UNION {{CompareOf(result, target, <<1>>, range_end, target_union) :
               result \in CompareResults, range_end \in {<<>>, <<3>>},
               target_union \in TargetUnions(target)} :
           target \in CompareTargets}

\* A Txn of one Compare; its branches differ, in requests and in length.
TxnOf(compare) ==
    TxnReq(compare,
           <<PutReq(<<1>>, <<8>>, 1, FALSE, FALSE, FALSE), RangeReq(<<1>>, <<>>)>>,
           <<DeleteRangeReq(<<2>>, <<>>, FALSE)>>)

\* Txns of one Compare, of none, and of two.
TxnProbes ==
    {TxnOf(<<cmp>>) : cmp \in Compares}
    \cup {TxnOf(<<>>)}
    \cup {TxnOf(<<CompareOf("Equal", "Version", <<1>>, <<>>,
                            <<[variant |-> "Version", v |-> 1]>>),
                  CompareOf(result, "Value", <<2>>, <<>>,
                            <<[variant |-> "Value", v |-> <<8>>]>>)>>) :
             result \in CompareResults}

\* The state after the commit of one proposal, given what sync_requests returned.
Seeded(seed, r) ==
    /\ index = r.index
    /\ db = r.db
    /\ revision = r.counter
    /\ kv_update = [t \in 1..Len(r.events) |->
                      [revision |-> r.revision, events |-> r.events[t]]]
    /\ last = [op |-> "sync", id |-> 1, requests |-> seed,
               revision |-> r.revision, events |-> r.events]

InitTxn ==
    /\ \E seed \in SeedLists :
          Seeded(seed, sync_requests([k \in Keys |-> <<>>], <<>>,
                                     InitialRevision, seed))
    /\ sp_exec_pool = <<>>
    /\ executed = [id \in ProposeIds |-> <<>>]
    /\ alive = TRUE
    /\ nexec = 0
    /\ ranged = {}
    /\ received = 0
    /\ sending = <<>>
    /\ exec_rx = <<>>
    /\ sync_rx = <<>>
    /\ syncing = <<>>
    /\ watched = <<>>
    /\ callers = {}

\* An execution request that carries a Txn.
txn_exec(id, req) ==
    /\ nexec < MaxTxnExec
    /\ speculative_exec(id, req, TRUE)

NextTxn == \E id \in ProposeIds, req \in TxnProbes : txn_exec(id, req)

SpecTxn == InitTxn /\ [][NextTxn]_vars

---------------------------------------------------------------------------
(* Runs with a KV watcher that reads history while the driver commits      *)

\* The requests of these runs: Puts of two keys and a DeleteRange of every key.
WatchRequests ==
    {PutReq(<<1>>, <<7>>, 0, FALSE, FALSE, FALSE),
     PutReq(<<2>>, <<8>>, 1, FALSE, FALSE, FALSE),
     DeleteRangeReq(<<0>>, <<0>>, TRUE)}

\* The revisions a watcher asks the history from.
WatchRevisions == {InitialRevision + 1, InitialRevision + 2}

\* The KV watcher is a task of its own that holds the Arc of the backend. It
\* reads the history of every key from `since` on and then the revision
\* counter, each read under the lock of what it reads: pc is "index" after
\* index.get_from_rev, "db" after db.get_values and "done" after revision();
\* revisions, events and revision are what the three reads returned (revision
\* is None until it is read).
WatchLocals(since, revisions) ==
    [since |-> since, pc |-> "index", revisions |-> revisions, events |-> <<>>,
     revision |-> <<>>]

\* The watcher is not inside a read.
WatcherIdle == IF watched = <<>> THEN TRUE ELSE watched[1].pc = "done"

\* get_event_from_revision: let revisions = self.index.get_from_rev(..)
get_event_from_revision_index(rev) ==
    /\ WatcherIdle
    /\ watched' = <<WatchLocals(rev, index_get_from_rev(index, <<0>>, <<0>>, rev))>>
    /\ UNCHANGED <<revision, index, db, sp_exec_pool, kv_update, last, executed,
                   alive, nexec, ranged, received, sending, exec_rx, sync_rx,
                   syncing, callers>>

\* get_event_from_revision: let values = self.db.get_values(&revisions), and
\* the events made of them.
get_event_from_revision_db ==
    /\ watched # <<>>
    /\ watched[1].pc = "index"
    /\ watched' = <<[watched[1] EXCEPT
                        !.pc = "db",
                        !.events = EventsOf(db_get_values(db, watched[1].revisions))]>>
    /\ UNCHANGED <<revision, index, db, sp_exec_pool, kv_update, last, executed,
                   alive, nexec, ranged, received, sending, exec_rx, sync_rx,
                   syncing, callers>>

\* revision(): *self.revision.lock(), read by the watcher after the history.
watch_revision ==
    /\ watched # <<>>
    /\ watched[1].pc = "db"
    /\ watched' = <<[watched[1] EXCEPT !.pc = "done", !.revision = <<revision>>]>>
    /\ UNCHANGED <<revision, index, db, sp_exec_pool, kv_update, last, executed,
                   alive, nexec, ranged, received, sending, exec_rx, sync_rx,
                   syncing, callers>>

NextWatch ==
    \/ \E id \in ProposeIds, req \in WatchRequests :
          speculative_exec(id, req, TRUE)
    \/ \E id \in ProposeIds : sync_cmd(id)
    \/ sync_request_index
    \/ sync_request_db
    \/ sync_requests_store
    \/ sync_cmd_reply(TRUE)
    \/ notify_updates
    \/ \E rev \in WatchRevisions : get_event_from_revision_index(rev)
    \/ get_event_from_revision_db
    \/ watch_revision

SpecWatch == Init /\ [][NextWatch]_vars

---------------------------------------------------------------------------
(* Range runs: one committed proposal, then Ranges of every shape          *)

\* The limits of the Ranges: none, negative, below, at and above the number of
\* keys a range can hold.
RangeLimits == {-1, 0, 1, 2, 3}

\* The (sort_target, sort_order) pairs of the Ranges.
RangeSorts == {<<"Key", "None">>, <<"Key", "Descend">>, <<"Value", "Ascend">>}

\* A Range of one key or of every key, at the latest revision or at the
\* revision before the committed proposal.
RangeProbes ==
    {[type |-> "Range", key |-> range[1], range_end |-> range[2],
      revision |-> rev, limit |-> limit, count_only |-> count_only,
      sort_target |-> sort[1], sort_order |-> sort[2]] :
        range \in {<<<<1>>, <<>>>>, <<<<0>>, <<0>>>>},
        rev \in {0, InitialRevision},
        limit \in RangeLimits,
        count_only \in BOOLEAN,
        sort \in RangeSorts}

\* An execution request that carries a Range.
range_exec(id, req) ==
    /\ nexec < MaxRangeExec
    /\ speculative_exec(id, req, TRUE)

NextRange == \E id \in ProposeIds, req \in RangeProbes : range_exec(id, req)

SpecRange == InitTxn /\ [][NextRange]_vars

---------------------------------------------------------------------------
(* Runs with the two inbound channels between the callers and the driver   *)

\* The requests of these runs.
SelectRequests ==
    {PutReq(<<1>>, <<7>>, 0, FALSE, FALSE, FALSE), RangeReq(<<1>>, <<>>)}

\* The propose ids of the messages a channel holds.
IdsIn(channel) == {channel[i].id : i \in 1..Len(channel)}

\* send_req: the execution request of a proposal is placed on exec_tx; the
\* proposal is one whose sync request has not been placed. The driver task
\* holds the receiver.
send_req(id, req) ==
    /\ alive
    /\ nexec + Len(exec_rx) < MaxExec
    /\ Len(exec_rx) < CHANNEL_SIZE
    /\ id \notin IdsIn(sync_rx)
    /\ exec_rx' = Append(exec_rx, [id |-> id, req |-> req])
    /\ UNCHANGED <<revision, index, db, sp_exec_pool, kv_update, last, executed,
                   alive, nexec, ranged, received, sending, sync_rx, syncing,
                   watched, callers>>

\* A caller whose send found the channel closed: its assert fails
\* ("Command receiver dropped") and it panics.
CallerPanics(op, id) == callers' = callers \cup {[op |-> op, id |-> id]}

\* send_req after the driver task has ended: nothing is queued.
send_req_closed(id) ==
    /\ ~alive
    /\ CallerPanics("send_req", id)
    /\ UNCHANGED <<revision, index, db, sp_exec_pool, kv_update, last, executed,
                   alive, nexec, ranged, received, sending, exec_rx, sync_rx,
                   syncing, watched>>

\* send_sync: the sync request of a proposal is placed on sync_tx, once, after
\* an execution request of the proposal was placed on exec_tx. The driver
\* task holds the receiver.
send_sync(id) ==
    /\ alive
    /\ id \in IdsIn(exec_rx) \cup DOMAIN sp_exec_pool
    /\ id \notin IdsIn(sync_rx)
    /\ Len(sync_rx) < CHANNEL_SIZE
    /\ sync_rx' = Append(sync_rx, [id |-> id])
    /\ UNCHANGED <<revision, index, db, sp_exec_pool, kv_update, last, executed,
                   alive, nexec, ranged, received, sending, exec_rx, syncing,
                   watched, callers>>

\* send_sync after the driver task has ended: nothing is queued.
send_sync_closed(id) ==
    /\ ~alive
    /\ CallerPanics("send_sync", id)
    /\ UNCHANGED <<revision, index, db, sp_exec_pool, kv_update, last, executed,
                   alive, nexec, ranged, received, sending, exec_rx, sync_rx,
                   syncing, watched>>

\* select!: cmd_req = exec_rx.recv() => inner.speculative_exec(req)
select_exec ==
    /\ DriverIdle
    /\ exec_rx # <<>>
    /\ exec_rx' = Tail(exec_rx)
    /\ ExecReply(Head(exec_rx).id, Head(exec_rx).req,
                 handle_kv_requests(sp_exec_pool, index, db, Head(exec_rx).id,
                                    Head(exec_rx).req),
                 TRUE)
    /\ nexec' = nexec + 1
    /\ UNCHANGED <<revision, index, db, kv_update, received, sending, sync_rx,
                   syncing, watched, callers>>

\* select!: sync_req = sync_rx.recv() => inner.sync_cmd(req).await, the
\* proposal is in the pool.
select_sync ==
    /\ DriverIdle
    /\ sync_rx # <<>>
    /\ Head(sync_rx).id \in DOMAIN sp_exec_pool
    /\ sync_rx' = Tail(sync_rx)
    /\ SyncTake(Head(sync_rx).id)
    /\ UNCHANGED <<revision, index, db, kv_update, last, alive, nexec, received,
                   sending, exec_rx, watched, callers>>

\* select!: the sync request received is of a proposal that is not in the
\* pool, sync_cmd panics.
select_sync_missing ==
    /\ DriverIdle
    /\ sync_rx # <<>>
    /\ Head(sync_rx).id \notin DOMAIN sp_exec_pool
    /\ alive' = FALSE
    /\ last' = Panicked(Head(sync_rx).id, "pool")
    /\ DriverTask(FALSE)
    /\ UNCHANGED <<revision, index, db, sp_exec_pool, kv_update, executed, nexec,
                   ranged, received, sending, syncing, watched, callers>>

NextSelect ==
    \/ \E id \in ProposeIds, req \in SelectRequests : send_req(id, req)
    \/ \E id \in ProposeIds : send_sync(id)
    \/ \E id \in ProposeIds : send_req_closed(id)
    \/ \E id \in ProposeIds : send_sync_closed(id)
    \/ select_exec
    \/ select_sync
    \/ select_sync_missing
    \/ sync_request_index
    \/ sync_request_db
    \/ sync_request_none
    \/ sync_requests_store
    \/ sync_cmd_reply(TRUE)
    \/ notify_updates

SpecSelect == Init /\ [][NextSelect]_vars

---------------------------------------------------------------------------
(* Steps and histories the properties speak about                          *)

\* The step handles an execution request and replies to it.
ExecStep == nexec' = nexec + 1 /\ last'.op = "exec"

\* The step is the reply of a sync_cmd that found its proposal in the pool:
\* the requests are applied and the revision counter is stored, last' is what
\* the sync_cmd replies.
ReplyStep ==
    /\ syncing # <<>>
    /\ syncing[1].pc = "reply"
    /\ last'.op = "sync"

\* The locals of the sync_cmd that replies: the revision it read at its start,
\* and the index, the db and the executes of the proposal it found.
Taken == syncing[1]

\* The step stores the revision counter at the end of a sync_requests that
\* produced an event.
StoreStep ==
    /\ syncing # <<>>
    /\ syncing[1].pc = "loop"
    /\ syncing[1].rest = <<>>
    /\ syncing[1].modify
    /\ syncing' # syncing

\* 1 while a sync_cmd has stored the revision of its events and has not
\* replied yet, 0 otherwise.
Replying ==
    IF syncing = <<>> THEN 0
    ELSE IF syncing[1].pc = "reply" /\ syncing[1].pending[1].events # <<>>
    THEN 1 ELSE 0

\* The pool entries of the proposals other than `id` are the same after the step.
OtherEntriesUnchanged(id) ==
    \A p \in ProposeIds \ {id} :
        /\ p \in DOMAIN sp_exec_pool' <=> p \in DOMAIN sp_exec_pool
        /\ p \in DOMAIN sp_exec_pool => sp_exec_pool'[p] = sp_exec_pool[p]

\* Every event sent to the KV watcher, in the order sent, with the revision of
\* its tuple and its place in the tuple.
Published ==
    SeqConcat([t \in 1..Len(kv_update) |->
                 [i \in 1..Len(kv_update[t].events) |->
                    [main |-> kv_update[t].revision, sub |-> i - 1,
                     event |-> kv_update[t].events[i]]]])

---------------------------------------------------------------------------
(* C1..C10                                                                 *)

\* C1: a speculative execute of any request kind, answered Ok or with an error,
\* leaves the revision counter, the index and the db unchanged and sends
\* nothing to the KV watcher; of the pool it changes at most the entry of its
\* own propose id.
C1_ExecuteFrame ==
    [][nexec' = nexec + 1 =>
          /\ revision' = revision
          /\ index' = index
          /\ db' = db
          /\ kv_update' = kv_update
          /\ sending' = sending
          /\ OtherEntriesUnchanged(last'.id)]_vars

\* An errored Txn execute after a commit that sent events, with the other
\* proposal buffered.
C1_Witness ==
    /\ last.op = "exec" /\ ~last.ok /\ last.req.type = "Txn"
    /\ kv_update # <<>>
    /\ DOMAIN sp_exec_pool = ProposeIds

\* The commits that produced an event: each wrote its kvs at a main revision
\* of its own.
Modifying == {c[1] : c \in DOMAIN db}

\* C2: the revision counter is the initial revision plus the number of
\* committed proposals that produced at least one event, whenever no
\* sync_requests is under way; while the driver runs each of them has sent, is
\* sending or is about to reply one non-empty tuple. The counter never
\* decreases, a sync that produced events advances it by exactly 1, once,
\* before it replies, and no other step changes it.
C2_RevisionCount ==
    /\ []((syncing = <<>> \/ syncing[1].pc = "reply") =>
            revision = InitialRevision + Cardinality(Modifying))
    /\ [](/\ alive =>
                revision = InitialRevision + Len(kv_update) + Len(sending)
                              + Replying
          /\ DriverIdle => revision = InitialRevision + Len(kv_update)
          /\ \A t \in 1..Len(kv_update) : kv_update[t].events # <<>>)
    /\ [][/\ revision' >= revision
          /\ StoreStep => revision' = revision + 1
          /\ ~StoreStep => revision' = revision
          /\ ReplyStep =>
                revision = IF last'.events # <<>> THEN Taken.revision + 1
                           ELSE Taken.revision]_vars

\* Two commits with events, then one without.
C2_Witness ==
    /\ revision = InitialRevision + 2
    /\ last.op = "sync" /\ last.events = <<>> /\ last.requests # <<>>

\* C3: sync_cmd replies old revision + 1 when the requests of the proposal
\* produced an event, and sends these events with that revision; it replies
\* the unchanged revision and sends nothing when they produced none, as for a
\* proposal of Range requests only.
C3_CommitReply ==
    /\ [][ReplyStep =>
             /\ last'.events # <<>> =>
                   /\ last'.revision = Taken.revision + 1
                   /\ revision = Taken.revision + 1
                   /\ sending' = <<[revision |-> Taken.revision + 1,
                                    events |-> last'.events[1]]>>
             /\ last'.events = <<>> =>
                   /\ last'.revision = Taken.revision
                   /\ revision = Taken.revision
                   /\ sending' = <<>>
             /\ (\A i \in 1..Len(last'.requests) :
                    last'.requests[i].type = "Range")
                   => last'.events = <<>>
             /\ last'.events = <<>>
                   <=> (index = Taken.found.index /\ db = Taken.found.db)]_vars
    /\ [][kv_update' # kv_update =>
             /\ sending # <<>>
             /\ kv_update' = Append(kv_update, sending[1])]_vars

\* A commit of a DeleteRange that matched no live key, after an earlier commit
\* advanced the revision: the reply is the unchanged revision.
C3_Witness ==
    /\ last.op = "sync" /\ last.events = <<>>
    /\ \E i \in 1..Len(last.requests) : last.requests[i].type = "DeleteRange"
    /\ last.revision = revision /\ revision > InitialRevision

\* Every execute of a proposal was a request of kind `type` that was answered
\* with an error.
OnlyFailed(execs, type) ==
    /\ execs # <<>>
    /\ \A i \in 1..Len(execs) : execs[i].req.type = type /\ ~execs[i].ok

\* The sync that replies applied nothing: no index entry, no db entry, no
\* event, no revision advance.
SyncIsNoOp ==
    /\ last'.events = <<>>
    /\ index = Taken.found.index
    /\ db = Taken.found.db
    /\ revision = Taken.revision
    /\ sending' = <<>>

\* C4: a Put with ignore_lease or ignore_value that execute answered with
\* InvalidCommand is not buffered, so the commit of its proposal is a no-op for
\* it, whatever other proposals executed and committed in between.
C4_FailedPutNotApplied ==
    [][(ReplyStep /\ OnlyFailed(Taken.found.executed, "Put")) => SyncIsNoOp]_vars

\* C5: a Txn that execute answered with InvalidCommand leaves nothing in the
\* pool, so the commit of its proposal applies no mutation and emits no event.
C5_FailedTxnNotApplied ==
    [][(ReplyStep /\ OnlyFailed(Taken.found.executed, "Txn")) => SyncIsNoOp]_vars

\* The index entries, over all keys, that a commit at revision `main` appended.
EntriesAt(main) ==
    {e \in UNION {{[key |-> k, entry |-> index[k][j]] : j \in 1..Len(index[k])} :
                     k \in DOMAIN index} :
        e.entry.mod_revision = main}

\* C6: in a tuple of n events every event is recorded at the revision of the
\* tuple, which is the revision the commit replied, and the i-th event
\* (i = 0..n-1) at sub-revision i: the index entry of its key and the db entry
\* at (revision, i) are those of the event, and the sub-revisions of the commit
\* are 0..n-1 without gap or repeat.
C6_SubRevisions ==
    /\ \A t \in 1..Len(kv_update) :
          /\ \A i \in 1..Len(kv_update[t].events) :
                /\ kv_update[t].events[i].kv[1].mod_revision = kv_update[t].revision
                /\ \E e \in EntriesAt(kv_update[t].revision) :
                      /\ e.key = kv_update[t].events[i].kv[1].key
                      /\ e.entry.sub_revision = i - 1
                /\ <<kv_update[t].revision, i - 1>> \in DOMAIN db
                /\ db[<<kv_update[t].revision, i - 1>>] = kv_update[t].events[i].kv[1]
          /\ Cardinality(EntriesAt(kv_update[t].revision)) = Len(kv_update[t].events)
          /\ {e.entry.sub_revision : e \in EntriesAt(kv_update[t].revision)}
                = 0..(Len(kv_update[t].events) - 1)
    /\ (last.op = "sync" /\ last.events # <<>>) =>
          IF sending # <<>>
          THEN sending[1] = [revision |-> last.revision,
                             events |-> last.events[1]]
          ELSE kv_update[Len(kv_update)] = [revision |-> last.revision,
                                            events |-> last.events[1]]

\* A commit of four events, Puts and Deletes mixed.
C6_Witness ==
    \E t \in 1..Len(kv_update) :
        /\ Len(kv_update[t].events) >= 4
        /\ kv_update[t].events[1].type = "Put"
        /\ kv_update[t].events[2].type = "Delete"
        /\ kv_update[t].events[4].type = "Put"

\* The tuples sent to the KV watcher that carry an event at the revision
\* coordinate (main, sub): the event is the one at place sub + 1 of the tuple.
PublishedAt(main, sub) ==
    {t \in 1..Len(kv_update) :
        kv_update[t].revision = main /\ sub + 1 \in 1..Len(kv_update[t].events)}

\* C7: an event is published if and only if its mutation is in the index: every
\* published event at (R, S) has an index entry at (R, S) for its key, and,
\* whenever no commit is under way, every index entry at (R, S) has exactly
\* one published event at (R, S), for its key and of its kind (Delete for a
\* tombstone, Put otherwise).
C7_EventIffIndexed ==
    /\ \A t \in 1..Len(kv_update) :
          \A i \in 1..Len(kv_update[t].events) :
              \E j \in 1..Len(index[kv_update[t].events[i].kv[1].key]) :
                  /\ index[kv_update[t].events[i].kv[1].key][j].mod_revision
                        = kv_update[t].revision
                  /\ index[kv_update[t].events[i].kv[1].key][j].sub_revision = i - 1
    /\ (syncing = <<>> /\ sending = <<>>) => \A k \in DOMAIN index :
          \A j \in 1..Len(index[k]) :
              /\ Cardinality(PublishedAt(index[k][j].mod_revision,
                                         index[k][j].sub_revision)) = 1
              /\ \A t \in PublishedAt(index[k][j].mod_revision,
                                      index[k][j].sub_revision) :
                    /\ kv_update[t].events[index[k][j].sub_revision + 1].kv[1].key = k
                    /\ kv_update[t].events[index[k][j].sub_revision + 1].type =
                          IF IsDeleted(index[k][j]) THEN "Delete" ELSE "Put"

\* C8: the tuples are sent in strictly increasing revision order, one tuple per
\* revision, and the tuple of revision R is sent when the revision counter has
\* been set to R.
C8_WatchOrder ==
    /\ [](/\ \A t \in 1..Len(kv_update) :
                /\ kv_update[t].revision <= revision
                /\ \A u \in 1..Len(kv_update) :
                      t < u => kv_update[t].revision < kv_update[u].revision
          /\ \A r \in (InitialRevision + 1)..(InitialRevision + Len(kv_update)) :
                Cardinality({t \in 1..Len(kv_update) : kv_update[t].revision = r}) = 1
          /\ DriverIdle => revision = InitialRevision + Len(kv_update))
    /\ [][kv_update' # kv_update =>
             /\ Len(kv_update') = Len(kv_update) + 1
             /\ SubSeq(kv_update', 1, Len(kv_update)) = kv_update
             /\ kv_update'[Len(kv_update')].revision = revision
             /\ revision' = revision]_vars

\* Three tuples have been sent.
C8_Witness ==
    /\ Len(kv_update) = 3
    /\ kv_update[3].revision = revision

\* The published events of one key, in the order sent.
KeyEvents(k) == SelectSeq(Published, LAMBDA p : p.event.kv[1].key = k)

\* The place of the last Delete among events, 0 when there is none.
LastDelete(evs) ==
    LET dels == {i \in 1..Len(evs) : evs[i].event.type = "Delete"}
    IN  IF dels = {} THEN 0 ELSE CHOOSE i \in dels : \A j \in dels : j <= i

\* The bookkeeping of one key against the Puts and Deletes applied to it.
KeyBookkeeping(kvs, evs, d) ==
    IF kvs = <<>> THEN d = Len(evs)
    ELSE /\ Len(kvs) = 1
         /\ d < Len(evs)
         /\ kvs[1].version = Len(evs) - d
         /\ kvs[1].create_revision = evs[d + 1].main
         /\ kvs[1].mod_revision = evs[Len(evs)].main

\* C9: for every key with a live value, version is the number of Puts applied
\* to it since its last Delete (or since its first Put), create_revision is the
\* commit revision of the first of these Puts and mod_revision that of the
\* last; a key has no live value exactly when no Put followed its last Delete.
C9_VersionBookkeeping ==
    DriverIdle =>
        \A k \in Keys :
            KeyBookkeeping(get_range(index, db, k, <<>>, 0), KeyEvents(k),
                           LastDelete(KeyEvents(k)))

\* A key put again after a delete: version 1, created at the new revision; and
\* a key put twice since it was absent.
C9_Witness ==
    /\ \E k \in Keys :
          /\ LastDelete(KeyEvents(k)) > 0
          /\ get_range(index, db, k, <<>>, 0) # <<>>
          /\ get_range(index, db, k, <<>>, 0)[1].version = 1
          /\ get_range(index, db, k, <<>>, 0)[1].create_revision = revision
    /\ revision > InitialRevision + 1

\* The sync handled last committed the single request Put(k, v) on a key that
\* had no live value.
CommittedFreshPut ==
    /\ last.op = "sync"
    /\ Len(last.requests) = 1
    /\ last.requests[1].type = "Put"
    /\ last.events # <<>>
    /\ last.events[1][1].prev_kv = <<>>

\* C10: after the commit at revision R of Put(k, v) on a key with no live
\* value, an execute of Range(k) at the latest revision answers count 1 and
\* exactly one kv: k with value v, version 1, create_revision R and
\* mod_revision R.
C10_PutRangeRoundTrip ==
    [][(/\ CommittedFreshPut
        /\ ExecStep
        /\ last'.req.type = "Range"
        /\ last'.req.key = last.requests[1].key
        /\ last'.req.range_end = <<>>
        /\ last'.req.revision = 0
        /\ ~last'.req.count_only)
       => /\ last'.ok
          /\ last'.resp.count = 1
          /\ ~last'.resp.more
          /\ last'.resp.kvs =
                <<[key |-> last.requests[1].key,
                   value |-> last.requests[1].value,
                   create_revision |-> last.revision,
                   mod_revision |-> last.revision,
                   version |-> 1,
                   lease |-> last.requests[1].lease]>>]_vars

\* A Range of one key answered with one kv of version 1, right after the only
\* tuple of the last revision: one Put event of that key, with no previous kv.
C10_Witness ==
    /\ last.op = "exec" /\ last.req.type = "Range" /\ last.req.range_end = <<>>
    /\ last.resp.count = 1
    /\ last.resp.kvs[1].version = 1
    /\ last.resp.kvs[1].mod_revision = revision
    /\ revision > InitialRevision + 1
    /\ Len(kv_update[Len(kv_update)].events) = 1
    /\ kv_update[Len(kv_update)].events[1].type = "Put"
    /\ kv_update[Len(kv_update)].events[1].prev_kv = <<>>
    /\ kv_update[Len(kv_update)].events[1].kv[1].key = last.req.key

---------------------------------------------------------------------------
(* C11..C20                                                                *)

\* C11: two executes of the same Range request with no sync request handled
\* between them, by the same proposal or by two, and whatever else was executed
\* between them, are answered with equal responses (count, kvs in order, more).
C11_RangeIdempotent ==
    \A a \in ranged : \A b \in ranged : a.req = b.req => a.resp = b.resp

\* The same Range executed by two proposals, with a Put of its key executed
\* by the first proposal between the two.
C11_Witness ==
    /\ last.op = "exec" /\ last.req.type = "Range" /\ last.id = 2
    /\ \E a \in ranged : a.req = last.req /\ a.id = 1
    /\ 1 \in DOMAIN sp_exec_pool
    /\ Len(sp_exec_pool[1]) = 2
    /\ sp_exec_pool[1][1] = last.req
    /\ sp_exec_pool[1][2].type = "Put"
    /\ sp_exec_pool[1][2].key = last.req.key

\* The kvs of the range of a Compare, before the step.
CompareKvs(cmp) == get_range(index, db, cmp.key, cmp.range_end, 0)

\* The step executes a Txn of the single Compare `cmp`, and answers it.
TxnOfOneCompare ==
    /\ ExecStep
    /\ last'.req.type = "Txn"
    /\ last'.ok
    /\ Len(last'.req.compare) = 1

\* The predicate of a Compare on the default KeyValue as the claim gives it:
\* false for the target Value, the comparison on the default kv otherwise.
OnEmptyRange(cmp) ==
    IF cmp.target = "Value" THEN FALSE ELSE compare_kv(cmp, DefaultKeyValue)

\* C12: a Compare whose range holds no live key is false when its target is
\* Value, for every comparison and every operand, the unset one included, and
\* is the comparison on the default KeyValue when its target is Version,
\* Create, Mod or Lease.
C12_CompareOnEmptyRange ==
    [][(TxnOfOneCompare /\ CompareKvs(last'.req.compare[1]) = <<>>)
          => last'.resp.succeeded = OnEmptyRange(last'.req.compare[1])]_vars

\* The predicate of a Compare: over a range with live kvs, it holds for each.
HoldsOverRange(cmp) ==
    IF CompareKvs(cmp) = <<>> THEN check_compare(index, db, cmp)
    ELSE \A i \in 1..Len(CompareKvs(cmp)) : compare_kv(cmp, CompareKvs(cmp)[i])

\* The requests buffered for a proposal, none when it has no entry.
Buffered(pool, id) == IF id \in DOMAIN pool THEN pool[id] ELSE <<>>

\* C13: an answered Txn reports succeeded exactly when every Compare holds (a
\* Compare over live kvs holds when it holds for each of them; no Compare at
\* all is success), answers one response per request of the chosen branch, and
\* appends exactly the requests of that branch, in order, to the pool entry of
\* its proposal.
C13_TxnBranch ==
    [][(ExecStep /\ last'.req.type = "Txn" /\ last'.ok) =>
          /\ last'.resp.succeeded =
                (\A i \in 1..Len(last'.req.compare) :
                    HoldsOverRange(last'.req.compare[i]))
          /\ last'.resp.succeeded =>
                /\ Len(last'.resp.responses) = Len(last'.req.success)
                /\ Buffered(sp_exec_pool', last'.id)
                      = Buffered(sp_exec_pool, last'.id) \o last'.req.success
          /\ ~last'.resp.succeeded =>
                /\ Len(last'.resp.responses) = Len(last'.req.failure)
                /\ Buffered(sp_exec_pool', last'.id)
                      = Buffered(sp_exec_pool, last'.id) \o last'.req.failure]_vars

\* A Txn whose Compare holds for one of the two live kvs of its range and not
\* for the other: the failure branch was buffered.
C13_Witness ==
    /\ last.op = "exec" /\ last.req.type = "Txn" /\ last.ok
    /\ Len(last.req.compare) = 1
    /\ Len(CompareKvs(last.req.compare[1])) = 2
    /\ compare_kv(last.req.compare[1], CompareKvs(last.req.compare[1])[1])
    /\ ~compare_kv(last.req.compare[1], CompareKvs(last.req.compare[1])[2])
    /\ ~last.resp.succeeded
    /\ sp_exec_pool[last.id] = last.req.failure

\* The step handles a sync request for a propose id that has no pool entry.
SyncOfMissingId ==
    /\ DriverIdle
    /\ nexec' = nexec
    /\ last' # last
    /\ last'.id \notin DOMAIN sp_exec_pool

\* C14: a sync request for a propose id with no pool entry (never executed, or
\* synced before) stops the driver: no revision is replied, the revision
\* counter, the index, the db and the pool are unchanged, no tuple is sent, and
\* the driver handles no request afterwards.
C14_MissingIdFailStop ==
    /\ [][SyncOfMissingId =>
             /\ ~alive'
             /\ last' = Panicked(last'.id, "pool")
             /\ syncing' = <<>>
             /\ revision' = revision
             /\ index' = index
             /\ db' = db
             /\ sp_exec_pool' = sp_exec_pool
             /\ kv_update' = kv_update
             /\ sending' = sending]_vars
    /\ [][alive]_vars

\* The driver stopped on a second sync request of proposal 1, whose first sync
\* sent events, while proposal 2 is buffered.
C14_Witness ==
    /\ ~alive
    /\ last = Panicked(1, "pool")
    /\ kv_update # <<>>
    /\ DOMAIN sp_exec_pool = {2}

\* The place of the first DeleteRange among the requests of a proposal.
FirstDelete(requests) ==
    CHOOSE p \in 1..Len(requests) :
        /\ requests[p].type = "DeleteRange"
        /\ \A q \in 1..(p - 1) : requests[q].type # "DeleteRange"

\* The Puts before the first DeleteRange.
PutsBefore(requests) ==
    {q \in 1..(FirstDelete(requests) - 1) : requests[q].type = "Put"}

\* The proposal holds one DeleteRange, and before it only Ranges and Puts that
\* copy nothing: each of these Puts emits one event.
OneDeleteAfterPuts(requests) ==
    /\ Cardinality({p \in 1..Len(requests) : requests[p].type = "DeleteRange"}) = 1
    /\ \A q \in 1..(FirstDelete(requests) - 1) :
          \/ requests[q].type = "Range"
          \/ /\ requests[q].type = "Put"
             /\ ~requests[q].ignore_value
             /\ ~requests[q].ignore_lease

\* The sub-revision the DeleteRange starts at: one event per Put before it.
SubStart(requests) == Cardinality(PutsBefore(requests))

\* The kv of a key when the DeleteRange is applied, as an Option: that of the
\* last Put of the key before it in the proposal, that of the store the
\* commit found otherwise.
KvBefore(found, requests, events, k) ==
    IF \E q \in PutsBefore(requests) : requests[q].key = k
    THEN events[Cardinality({q \in PutsBefore(requests) :
                    \E l \in PutsBefore(requests) :
                        requests[l].key = k /\ q <= l})].kv
    ELSE get_range(found.index, found.db, k, <<>>, 0)

\* The keys the DeleteRange finds live, ascending.
DeletedKeys(found, requests, events) ==
    SortedKeys({k \in Keys :
        /\ InRange(k, requests[FirstDelete(requests)].key,
                   requests[FirstDelete(requests)].range_end)
        /\ KvBefore(found, requests, events, k) # <<>>})

\* What the commit of the DeleteRange has done when it replies, given the keys
\* it found.
DeleteRangeApplied(found, requests, events, rev, ks) ==
    /\ {i \in 1..Len(events) : events[i].type = "Delete"}
          = (SubStart(requests) + 1)..(SubStart(requests) + Len(ks))
    /\ \A i \in 1..Len(ks) :
          /\ events[SubStart(requests) + i] =
                [type |-> "Delete",
                 kv |-> <<[key |-> ks[i], value |-> <<>>, create_revision |-> 0,
                           mod_revision |-> rev, version |-> 0, lease |-> 0]>>,
                 prev_kv |-> KvBefore(found, requests, events, ks[i])]
          /\ \E j \in 1..Len(index[ks[i]]) :
                index[ks[i]][j] =
                    [create_revision |-> 0, mod_revision |-> rev,
                     sub_revision |-> SubStart(requests) + i - 1, version |-> 0]
          /\ (\A q \in (FirstDelete(requests) + 1)..Len(requests) :
                 ~(requests[q].type = "Put" /\ requests[q].key = ks[i]))
             => get_range(index, db, ks[i], <<>>, 0) = <<>>
    /\ Len(ks) > 0 => (revision = Taken.revision + 1 /\ rev = revision)

\* C15: the commit of a DeleteRange that finds n live keys in its range emits
\* exactly n Delete events, one per key in key order, at the sub-revisions
\* sub_start .. sub_start + n - 1, each with kv = {key, empty value, version 0,
\* create_revision 0, mod_revision = the commit revision} and prev_kv = the kv
\* of the key before the deletion; the revision advances by exactly 1 when
\* n > 0, and a Range of a deleted key at the latest revision returns nothing.
C15_DeleteRangeEvents ==
    [][(ReplyStep /\ OneDeleteAfterPuts(last'.requests)) =>
          DeleteRangeApplied(Taken.found, last'.requests,
                             IF last'.events = <<>> THEN <<>> ELSE last'.events[1],
                             last'.revision,
                             DeletedKeys(Taken.found, last'.requests,
                                         IF last'.events = <<>> THEN <<>>
                                         ELSE last'.events[1]))]_vars

\* A DeleteRange at sub-revision 1 that deleted two keys: the first was put by
\* the same proposal, the second by an earlier one.
C15_Witness ==
    /\ last.op = "sync"
    /\ Len(last.requests) = 3
    /\ last.requests[2].type = "DeleteRange"
    /\ last.events # <<>>
    /\ Len(last.events[1]) = 4
    /\ last.events[1][2].type = "Delete"
    /\ last.events[1][2].prev_kv[1].mod_revision = last.revision
    /\ last.events[1][3].type = "Delete"
    /\ last.events[1][3].prev_kv[1].mod_revision < last.revision

\* C16: no Txn request reaches the sync path. After every execute, a Txn with
\* a Txn nested in a branch included, the pool entry of every proposal holds
\* only Range, Put and DeleteRange requests, so do the requests a sync_cmd
\* took from the pool, and the driver never stops on the panic of sync_request
\* for a TxnRequest.
C16_NoTxnSynced ==
    /\ \A id \in DOMAIN sp_exec_pool :
          \A i \in 1..Len(sp_exec_pool[id]) :
              sp_exec_pool[id][i].type \in {"Range", "Put", "DeleteRange"}
    /\ syncing # <<>> =>
          \A i \in 1..Len(syncing[1].requests) :
              syncing[1].requests[i].type \in {"Range", "Put", "DeleteRange"}
    /\ last.op = "panic" => last.at # "txn"

\* The commit of a proposal that executed a Txn with a Txn in its success
\* branch: the Put of the inner Txn and the Range after it were applied.
C16_Witness ==
    /\ last.op = "sync"
    /\ Len(last.requests) = 2
    /\ last.requests[1].type = "Put"
    /\ last.requests[2] = RangeReq(<<2>>, <<>>)
    /\ last.events # <<>>
    /\ alive

\* What the requests of a proposal must emit when applied first to last: the
\* kind, key and value of each event. `vals` gives the live value of each key
\* as an Option, and follows the requests: a Put that copies from a key with
\* no live value emits nothing, a Range emits nothing, a DeleteRange emits one
\* Delete per live key of its range, ascending.
RECURSIVE InOrder(_, _)
InOrder(requests, vals) ==
    IF requests = <<>> THEN <<>>
    ELSE CASE Head(requests).type = "Range" -> InOrder(Tail(requests), vals)
           [] Head(requests).type = "Put" ->
                IF /\ vals[Head(requests).key] = <<>>
                   /\ (Head(requests).ignore_value \/ Head(requests).ignore_lease)
                THEN InOrder(Tail(requests), vals)
                ELSE <<[type |-> "Put", key |-> Head(requests).key,
                        value |-> IF Head(requests).ignore_value
                                  THEN vals[Head(requests).key][1]
                                  ELSE Head(requests).value]>>
                     \o InOrder(Tail(requests),
                          [vals EXCEPT ![Head(requests).key] =
                              <<IF Head(requests).ignore_value
                                THEN vals[Head(requests).key][1]
                                ELSE Head(requests).value>>])
           [] Head(requests).type = "DeleteRange" ->
                [i \in 1..Len(SortedKeys({k \in Keys :
                        /\ vals[k] # <<>>
                        /\ InRange(k, Head(requests).key, Head(requests).range_end)})) |->
                    [type |-> "Delete",
                     key |-> SortedKeys({k \in Keys :
                        /\ vals[k] # <<>>
                        /\ InRange(k, Head(requests).key, Head(requests).range_end)})[i],
                     value |-> <<>>]]
                \o InOrder(Tail(requests),
                     [k \in Keys |->
                        IF InRange(k, Head(requests).key, Head(requests).range_end)
                        THEN <<>> ELSE vals[k]])

\* The live value of each key in the index and the db a commit found, as an
\* Option: that of the db entry at the last index entry of the key, unless
\* this is a tombstone.
LiveValues(found) ==
    [k \in Keys |->
        IF found.index[k] = <<>> THEN <<>>
        ELSE IF IsDeleted(found.index[k][Len(found.index[k])]) THEN <<>>
        ELSE <<found.db[AsRevision(found.index[k][Len(found.index[k])])].value>>]

\* The events of a commit are those of `expected`, in order, and the i-th is
\* stored at the sub-revision i - 1 of the commit revision.
EmittedInOrder(events, rev, expected) ==
    /\ [i \in 1..Len(events) |->
          [type |-> events[i].type, key |-> events[i].kv[1].key,
           value |-> events[i].kv[1].value]] = expected
    /\ \A i \in 1..Len(events) :
          /\ <<rev, i - 1>> \in DOMAIN db
          /\ db[<<rev, i - 1>>] = events[i].kv[1]

\* C17: the requests of a proposal are buffered in the order executed, across
\* the execute calls of the proposal and along the branch of a Txn, and the
\* commit applies them in that order: request by request, each starting at the
\* sub-revision the events before it reached; a Range emits no event and
\* takes no sub-revision.
C17_FifoCommit ==
    /\ [][ExecStep =>
             /\ Len(Buffered(sp_exec_pool, last'.id))
                   <= Len(Buffered(sp_exec_pool', last'.id))
             /\ SubSeq(Buffered(sp_exec_pool', last'.id), 1,
                       Len(Buffered(sp_exec_pool, last'.id)))
                   = Buffered(sp_exec_pool, last'.id)
             /\ last'.req.type # "Txn" =>
                   Buffered(sp_exec_pool', last'.id)
                      = Append(Buffered(sp_exec_pool, last'.id), last'.req)]_vars
    /\ [][(syncing = <<>> /\ syncing' # <<>>) =>
             syncing'[1].requests = sp_exec_pool[syncing'[1].id]]_vars
    /\ [][ReplyStep =>
             /\ last'.requests = Taken.requests
             /\ EmittedInOrder(IF last'.events = <<>> THEN <<>>
                               ELSE last'.events[1],
                               last'.revision,
                               InOrder(last'.requests,
                                       LiveValues(Taken.found)))]_vars

\* The commit of a proposal of two execute calls, a Range and then a Txn whose
\* branch is a Put, a DeleteRange and a Put of the same key.
C17_Witness ==
    /\ last.op = "sync"
    /\ Len(last.requests) = 4
    /\ last.requests[1].type = "Range"
    /\ last.requests[2].type = "Put"
    /\ last.requests[3].type = "DeleteRange"
    /\ last.requests[4].type = "Put"
    /\ last.requests[4].value # last.requests[2].value
    /\ last.events # <<>>
    /\ Len(last.events[1]) >= 3

\* Every execute of a proposal was a Put that was answered Ok.
AllOkPuts(execs) ==
    /\ execs # <<>>
    /\ \A i \in 1..Len(execs) : execs[i].req.type = "Put" /\ execs[i].ok

\* The events of a commit are one Put event per executed Put, in order.
OnePutEventEach(puts, events) ==
    /\ Len(events) = Len(puts)
    /\ \A i \in 1..Len(puts) :
          events[i].type = "Put" /\ events[i].kv[1].key = puts[i].req.key

\* C18: every Put that execute answered with a success response emits exactly
\* one Put event when its proposal commits, whatever other proposals
\* committed between its execute and its commit, a commit that deletes the key
\* of a Put with ignore_value or ignore_lease included.
C18_OkPutEmitsEvent ==
    [][(ReplyStep /\ AllOkPuts(Taken.found.executed)) =>
          OnePutEventEach(Taken.found.executed,
                          IF last'.events = <<>> THEN <<>>
                          ELSE last'.events[1])]_vars

\* The kv of the key of a request in the index and the db a commit found.
FoundKv(found, req) == get_range(found.index, found.db, req.key, <<>>, 0)

\* The step is the reply of the commit of a proposal whose first request is a
\* Put that copies the value or the lease, on a key that had a live value.
CopyingPutSynced ==
    /\ ReplyStep
    /\ last'.requests # <<>>
    /\ last'.requests[1].type = "Put"
    /\ last'.requests[1].ignore_value \/ last'.requests[1].ignore_lease
    /\ FoundKv(Taken.found, last'.requests[1]) # <<>>

\* The kv of a Put that copies from `prev`, the kv of its key at the commit.
CopiedAtCommit(req, kv, prev) ==
    /\ kv.key = req.key
    /\ kv.value = IF req.ignore_value THEN prev.value ELSE req.value
    /\ kv.lease = IF req.ignore_lease THEN prev.lease ELSE req.lease

\* C19: a Put with ignore_value (ignore_lease) committed on a key with a live
\* value stores, and carries in its Put event, the value (lease) that the kv of
\* the key has when the commit starts, not that of the request and not that of
\* the time of the execute; the other of the two fields is that of the request.
C19_CopyAtCommit ==
    [][CopyingPutSynced =>
          /\ last'.events # <<>>
          /\ last'.events[1][1].type = "Put"
          /\ last'.events[1][1].prev_kv = FoundKv(Taken.found, last'.requests[1])
          /\ CopiedAtCommit(last'.requests[1], last'.events[1][1].kv[1],
                            FoundKv(Taken.found, last'.requests[1])[1])
          /\ db[<<last'.revision, 0>>] = last'.events[1][1].kv[1]]_vars

\* Proposal 2, one Put with ignore_value and the value 9, was executed while
\* proposal 1 was buffered, and committed after it: the key had the value 7,
\* proposal 1 wrote 8, the Put of proposal 2 stored 8 and its own lease.
C19_Witness ==
    /\ last.op = "sync" /\ last.id = 2
    /\ Len(last.requests) = 1
    /\ last.requests[1].type = "Put"
    /\ last.requests[1].ignore_value
    /\ last.requests[1].value = <<9>>
    /\ nexec = 3
    /\ Len(kv_update) = 3
    /\ kv_update[1].events[1].kv[1].value = <<7>>
    /\ kv_update[2].events[1].kv[1].value = <<8>>
    /\ kv_update[3].events[1].kv[1].value = <<8>>
    /\ kv_update[3].events[1].kv[1].lease = last.requests[1].lease

\* C20: while a commit awaits the acceptance of its (revision, events) tuple
\* by the bounded channel, its revision reply has not been delivered, and the
\* driver handles no execute and no commit.
C20_ReplyAfterAcceptance ==
    /\ [](sending # <<>> =>
            ~(last.op = "sync" /\ last.revision = sending[1].revision))
    /\ [][sending # <<>> =>
             /\ nexec' = nexec
             /\ UNCHANGED <<revision, index, db, sp_exec_pool, last, syncing>>]_vars

---------------------------------------------------------------------------
(* C21..C26                                                                *)

\* The events of a read that are at the revision `main`.
WatchedAt(main) ==
    {i \in 1..Len(watched[1].events) :
        watched[1].events[i].kv[1].mod_revision = main}

\* The watcher has read the history and, after it, the revision counter.
WatchDone == watched # <<>> /\ watched[1].pc = "done"

\* C21: every read sees a consistent snapshot. No historical read
\* (get_event_from_revision) returns entries at a revision above the one the
\* revision counter reads at the same time, or only some of the entries of a
\* committed proposal, and no execute is handled while a commit is applied.
C21_ConsistentSnapshot ==
    /\ [](WatchDone =>
            /\ \A i \in 1..Len(watched[1].events) :
                  watched[1].events[i].kv[1].mod_revision <= watched[1].revision[1]
            /\ \A t \in 1..Len(kv_update) :
                  \/ kv_update[t].revision < watched[1].since
                  \/ Cardinality(WatchedAt(kv_update[t].revision))
                        \in {0, Len(kv_update[t].events)})
    /\ [][syncing # <<>> => nexec' = nexec]_vars

\* C22: a proposal id has a pool entry exactly from its first execute, of any
\* kind of request and whatever the reply, until its commit: the ids in the
\* pool are those with a request executed since their last commit, so the
\* commit leaves no entry to apply a second time.
C22_PoolEntryLifetime ==
    \A id \in ProposeIds :
        /\ id \in DOMAIN sp_exec_pool <=> executed[id] # <<>>
        /\ (last.op = "sync" /\ last.id = id /\ executed[id] = <<>>)
              => id \notin DOMAIN sp_exec_pool

\* The commit of a proposal whose only execute was a Txn of no request took
\* its empty entry away, beside a proposal that still holds such an entry.
C22_Witness ==
    /\ last.op = "sync"
    /\ last.requests = <<>>
    /\ last.id \notin DOMAIN sp_exec_pool
    /\ \E id \in DOMAIN sp_exec_pool :
          /\ sp_exec_pool[id] = <<>>
          /\ executed[id] = <<[req |-> TxnReq(<<>>, <<>>, <<>>), ok |-> TRUE]>>

\* The keys a Range matches: those of its range that are live at its revision.
Matched(req) ==
    {k \in Keys : /\ InRange(k, req.key, req.range_end)
                  /\ get_revisions(index[k], req.revision) # <<>>}

\* What the claim says of the response of a Range that matches n keys.
CountLimitMore(req, resp, n) ==
    /\ resp.count = n
    /\ req.count_only => (resp.kvs = <<>> /\ ~resp.more)
    /\ ~req.count_only =>
          /\ Len(resp.kvs) = IF req.limit > 0
                             THEN (IF req.limit < n THEN req.limit ELSE n)
                             ELSE n
          /\ resp.more <=> (req.limit > 0 /\ n > req.limit)

\* C23: for every Range request, count is the number of matched keys whatever
\* the limit; without count_only the kvs are min(limit, count) when limit > 0
\* and count otherwise, and more is set exactly when limit > 0 and
\* count > limit; with count_only the kvs are empty and more is not set.
C23_RangeCountLimit ==
    (last.op = "exec" /\ last.req.type = "Range") =>
        /\ last.ok
        /\ CountLimitMore(last.req, last.resp, Cardinality(Matched(last.req)))

\* A Range of two keys cut to one, and counted as two.
C23_Witness ==
    /\ last.op = "exec"
    /\ last.req.type = "Range"
    /\ last.req.limit = 1
    /\ ~last.req.count_only
    /\ last.resp.count = 2
    /\ Len(last.resp.kvs) = 1
    /\ last.resp.more

\* C24: when the execution request of a proposal is placed on the execution
\* channel before its sync request is placed on the sync channel, the driver
\* handles the execute before the commit: the commit finds the pool entry of
\* the proposal, the driver never panics on a missing propose id, and no
\* execution request of a proposal is left in the channel when its commit is
\* handled.
C24_ExecuteBeforeCommit ==
    /\ last.op # "panic"
    /\ alive
    /\ last.op = "sync" => last.id \notin IdsIn(exec_rx)

\* The response of a request of a branch handled on its own against the index
\* and the db of the state.
Standalone(req) ==
    CASE req.type = "Range" -> handle_range_request(index, db, req)
      [] req.type = "Put" -> handle_put_request(index, db, req).resp
      [] req.type = "DeleteRange" -> handle_delete_range_request(index, db, req)

\* A Range of the key of a Put that precedes it in the branch returns what the
\* committed state holds for the key, and the commit of the branch, given what
\* sync_requests returns for it, leaves the value of the Put under the key.
ReadsBeforeOwnPut(branch, responses, r) ==
    \A i \in 1..Len(branch) : \A j \in (i + 1)..Len(branch) :
        (/\ branch[i].type = "Put"
         /\ branch[j].type = "Range"
         /\ branch[j].key = branch[i].key
         /\ branch[j].range_end = <<>>
         /\ \A l \in (i + 1)..Len(branch) : branch[l].type = "Range") =>
            /\ responses[j].kvs = get_range(index, db, branch[i].key, <<>>, 0)
            /\ Len(get_range(r.index, r.db, branch[i].key, <<>>, 0)) = 1
            /\ get_range(r.index, r.db, branch[i].key, <<>>, 0)[1].value
                  = branch[i].value
            /\ responses[j].kvs # get_range(r.index, r.db, branch[i].key, <<>>, 0)

\* What the claim says of the responses of a Txn, given its chosen branch.
BranchAgainstCommitted(id, branch, responses) ==
    /\ Len(responses) = Len(branch)
    /\ \A i \in 1..Len(branch) : responses[i] = Standalone(branch[i])
    /\ ReadsBeforeOwnPut(branch, responses,
                         sync_requests(index, db, revision, branch))

\* C25: inside a Txn branch the speculative response of each request is
\* computed against the committed state only; it does not reflect the Puts
\* and DeleteRanges that precede it in the branch (a Range after Put(k, v)
\* returns what k held before the Txn), although the commit applies those
\* earlier requests first.
C25_TxnReadsCommitted ==
    (last.op = "exec" /\ last.req.type = "Txn" /\ last.ok) =>
        BranchAgainstCommitted(last.id,
                               IF last.resp.succeeded THEN last.req.success
                               ELSE last.req.failure,
                               last.resp.responses)

\* A Txn whose success branch puts value 8 under key 1 and then reads key 1:
\* the read returned the committed value 7.
C25_Witness ==
    /\ last.op = "exec" /\ last.req.type = "Txn" /\ last.ok
    /\ last.resp.succeeded
    /\ last.req.success[1].type = "Put"
    /\ last.req.success[1].value = <<8>>
    /\ last.req.success[2].type = "Range"
    /\ Len(last.resp.responses[2].kvs) = 1
    /\ last.resp.responses[2].kvs[1].value = <<7>>
    /\ sp_exec_pool[last.id] = last.req.success

\* The events of a commit, none when it replied no events.
EventsOfSync(l) == IF l.events = <<>> THEN <<>> ELSE l.events[1]

\* The events are Delete events, one per kv of `kvs` and in their order, each
\* with its kv as prev_kv.
DeletesOf(events, kvs) ==
    /\ Len(events) = Len(kvs)
    /\ \A i \in 1..Len(events) :
          events[i].type = "Delete" /\ events[i].prev_kv = <<kvs[i]>>

\* The Delete events agree with the speculative response: as many as deleted
\* says, and with the prev_kvs it reports when the request asked for them.
AgreesWithResponse(req, resp, events) ==
    /\ Len(events) = resp.deleted
    /\ \A i \in 1..Len(events) : events[i].type = "Delete"
    /\ req.prev_kv => DeletesOf(events, resp.prev_kvs)

\* C26: for a proposal of a single DeleteRange, with no commit between its
\* execute and its commit, the commit emits as many Delete events as the
\* speculative response counted as deleted, with the prev_kvs the response
\* reports when prev_kv is set. The commit that follows the execute agrees
\* with its response; and in every state the response of an execute and the
\* events of a commit are both those of the live kvs of the range, which only
\* a commit changes.
C26_DeleteRangeAgrees ==
    /\ [][(/\ ReplyStep
           /\ last.op = "exec" /\ last.ok /\ last.req.type = "DeleteRange"
           /\ last'.id = last.id
           /\ last'.requests = <<last.req>>) =>
             AgreesWithResponse(last.req, last.resp, EventsOfSync(last'))]_vars
    /\ [][(/\ ReplyStep
           /\ Len(last'.requests) = 1
           /\ last'.requests[1].type = "DeleteRange") =>
             DeletesOf(EventsOfSync(last'),
                       get_range(Taken.found.index, Taken.found.db,
                                 last'.requests[1].key,
                                 last'.requests[1].range_end, 0))]_vars
    /\ [][(ExecStep /\ last'.req.type = "DeleteRange") =>
             /\ last'.ok
             /\ last'.resp.deleted
                   = Len(get_range(index, db, last'.req.key,
                                   last'.req.range_end, 0))
             /\ last'.req.prev_kv =>
                   last'.resp.prev_kvs
                      = get_range(index, db, last'.req.key,
                                  last'.req.range_end, 0)
             /\ UNCHANGED <<index, db>>]_vars

\* The commit of a proposal of one DeleteRange of every key, with prev_kv set,
\* emitted two Delete events.
C26_Witness ==
    /\ last.op = "sync"
    /\ last.requests = <<DeleteRangeReq(<<0>>, <<0>>, TRUE)>>
    /\ Len(EventsOfSync(last)) = 2
    /\ EventsOfSync(last)[1].prev_kv # <<>>
    /\ EventsOfSync(last)[2].prev_kv # <<>>

===========================================================================
